-------------------------- MODULE NoteLeasesProofs --------------------------
(* Proofs about NoteLeases for every number of tabs, browsers and desktops,    *)
(* every term and every number of requests.                                    *)
EXTENDS NoteLeases, TLAPS

---------------------------------------------------------------------------
(* The inductive invariant: the row's epoch counts the grants, so an epoch      *)
(* names one grant for good; no claim runs ahead of it; desktops hold none.    *)

ClaimOK(c) == c \in Claims /\ c.epoch = c.nth /\ c.nth <= grants

RequestOK(r) ==
    /\ r.from \in Clients
    /\ r.n \in Nat
    /\ r.began \in Nat \cup {NotBegun} /\ r.began <= now
    /\ r.claim \in Claims
    /\ r.claim.nth <= grants
    /\ r.from \in Tabs => r.claim.epoch = r.claim.nth
    /\ r.from \in Desktops => r.claim.nth = 0

EpochCounts == grants \in Nat /\ lease.epoch = grants

HeldOnce ==
    \A t, u \in Tabs : t # u /\ held[t] # NoClaim => held[t].epoch # held[u].epoch

IInv ==
    /\ now \in Nat
    /\ lease \in [dev : Devices, epoch : Nat, expires : Nat]
    /\ block.text.dev \in Devices /\ block.text.nth \in 0..grants
    /\ held \in [Tabs -> Claims]
    /\ local \in [Desktops -> 0..MaxLocal]
    /\ waiting \in [Clients -> Nat]
    /\ quota \in [Clients -> Nat]
    /\ EpochCounts
    /\ \A t \in Tabs : ClaimOK(held[t])
    /\ HeldOnce
    /\ \A r \in requests : RequestOK(r)

(* The invariant gives the two that the runs check.                            *)
LEMMA InvariantSuffices == IInv => TypeOK /\ EpochsNotShared
  BY DEF IInv, TypeOK, EpochsNotShared, HeldOnce, RequestOK

(* It holds at the start.                                                      *)
LEMMA InitInvariant == Init => IInv
  <1> SUFFICES ASSUME Init PROVE IInv
    OBVIOUS
  <1>1. MaxLocal \in Nat /\ quota \in [Clients -> Nat]
    BY BoundsAssumption DEF Init
  <1> QED
    BY <1>1 DEF Init, IInv, NoLease, NoClaim, NoMarker, Claims, Devices, EpochCounts, ClaimOK, HeldOnce

(* A request put on its way by a client keeps the invariant, whatever it does   *)
(* to the claims the client remembers as long as it takes none.                *)
LEMMA PostInvariant ==
    ASSUME IInv, NEW c \in Clients, NEW kind, NEW claim \in Claims, NEW shown, NEW keep,
           Post(c, kind, claim, shown, keep),
           claim.nth <= grants,
           c \in Tabs => claim.epoch = claim.nth,
           c \in Desktops => claim.nth = 0,
           waiting' \in [Clients -> Nat],
           held' \in [Tabs -> Claims],
           \A t \in Tabs : held'[t] \in {held[t], NoClaim},
           UNCHANGED local
    PROVE  IInv'
  <1> DEFINE r == [n |-> quota[c], from |-> c, kind |-> kind, claim |-> claim, shown |-> shown,
                   keep |-> keep, began |-> NotBegun]
  <1>1. requests' = requests \cup {r} /\ UNCHANGED <<now, lease, block, grants>>
    BY DEF Post
  <1>2. quota' \in [Clients -> Nat]
    BY DEF Post, IInv
  <1>3. RequestOK(r)
    BY DEF RequestOK, NotBegun, IInv
  <1>4. \A q \in requests' : RequestOK(q)'
    BY <1>1, <1>3 DEF RequestOK, IInv
  <1>5. NoClaim \in Claims /\ NoClaim.epoch = 0 /\ NoClaim.nth = 0
    BY DEF NoClaim, Claims
  <1>6. \A t \in Tabs : ClaimOK(held[t])'
    BY <1>1, <1>5 DEF ClaimOK, IInv, EpochCounts
  <1>7. HeldOnce'
    <2> SUFFICES ASSUME NEW t \in Tabs, NEW u \in Tabs, t # u, held'[t] # NoClaim
                 PROVE  held'[t].epoch # held'[u].epoch
      BY DEF HeldOnce
    <2>1. held'[t] = held[t] /\ held[t] \in Claims /\ held[t].epoch = held[t].nth
      BY DEF IInv, ClaimOK
    <2>2. held[t].epoch # 0
      BY <2>1 DEF Claims, NoClaim
    <2>3. CASE held'[u] = held[u]
      BY <2>1, <2>3 DEF IInv, HeldOnce
    <2>4. CASE held'[u] = NoClaim
      BY <2>1, <2>2, <2>4, <1>5
    <2> QED
      BY <2>3, <2>4
  <1> QED
    BY <1>1, <1>2, <1>4, <1>6, <1>7 DEF IInv, EpochCounts

---------------------------------------------------------------------------
(* The clients' steps. *)

(* No claim has epoch 0; a held one names its grant. *)
LEMMA ClaimFacts ==
    /\ NoClaim \in Claims /\ NoClaim.epoch = 0 /\ NoClaim.nth = 0
    /\ IInv => \A t \in Tabs : held[t] \in Claims /\ held[t].epoch = held[t].nth /\ held[t].nth <= grants
    /\ Tabs \cap Desktops = {}
  BY ClientsAssumption DEF NoClaim, Claims, IInv, ClaimOK

LEMMA TabInvariant ==
    ASSUME IInv, NEW t \in Tabs,
           BeginEdit(t) \/ Type(t) \/ KeepEditing(t) \/ EndEdit(t) \/ Leave(t)
    PROVE  IInv'
  <1>1. t \in Clients /\ t \notin Desktops
    BY ClaimFacts DEF Clients
  <1>2. waiting \in [Clients -> Nat] /\ quota \in [Clients -> Nat] /\ held \in [Tabs -> Claims] /\ grants \in Nat
    BY DEF IInv, EpochCounts
  <1>3. held[t] \in Claims /\ held[t].epoch = held[t].nth /\ held[t].nth <= grants
    BY ClaimFacts
  <1>4. NoClaim \in Claims /\ NoClaim.epoch = 0 /\ NoClaim.nth = 0
    BY ClaimFacts
  <1>5. waiting' \in [Clients -> Nat]
    BY <1>1, <1>2 DEF BeginEdit, Type, KeepEditing, EndEdit, Leave, Send
  <1>6. held' \in [Tabs -> Claims] /\ \A u \in Tabs : held'[u] \in {held[u], NoClaim}
    BY <1>2, <1>4 DEF BeginEdit, Type, KeepEditing, EndEdit, Leave
  <1>7. UNCHANGED local
    BY DEF BeginEdit, Type, KeepEditing, EndEdit, Leave
  <1>8. CASE BeginEdit(t)
    <2>1. Post(t, "acquire", NoClaim, NoMarker, "ours")
      BY <1>8 DEF BeginEdit, Send
    <2> QED
      BY <2>1, <1>1, <1>2, <1>4, <1>5, <1>6, <1>7, PostInvariant
  <1>9. CASE Type(t) \/ KeepEditing(t) \/ EndEdit(t) \/ Leave(t)
    <2>1. PICK kind \in {"write", "renew", "release"} : Post(t, kind, held[t], NoMarker, "ours")
      BY <1>9 DEF Type, KeepEditing, EndEdit, Leave, Send
    <2> QED
      BY <2>1, <1>1, <1>3, <1>5, <1>6, <1>7, PostInvariant
  <1> QED
    BY <1>8, <1>9

LEMMA GiveUpInvariant ==
    ASSUME IInv, NEW t \in Tabs, GiveUp(t)
    PROVE  IInv'
  <1>1. UNCHANGED <<now, lease, block, local, requests, quota, grants>>
    BY DEF GiveUp
  <1>2. waiting' \in [Clients -> Nat]
    BY DEF GiveUp, IInv
  <1>3. NoClaim \in Claims /\ NoClaim.epoch = 0 /\ NoClaim.nth = 0
    BY ClaimFacts
  <1>4. held' \in [Tabs -> Claims] /\ \A u \in Tabs : held'[u] \in {held[u], NoClaim}
    BY <1>3 DEF GiveUp, IInv
  <1>5. \A u \in Tabs : ClaimOK(held[u])'
    BY <1>1, <1>3, <1>4 DEF ClaimOK, IInv, EpochCounts
  <1>6. HeldOnce'
    <2> SUFFICES ASSUME NEW u \in Tabs, NEW v \in Tabs, u # v, held'[u] # NoClaim
                 PROVE  held'[u].epoch # held'[v].epoch
      BY DEF HeldOnce
    <2>1. held'[u] = held[u] /\ held[u] # NoClaim /\ held[u].epoch # held[v].epoch
      BY <1>4 DEF IInv, HeldOnce
    <2>2. held[u].epoch # 0
      BY <2>1, ClaimFacts DEF Claims, NoClaim
    <2> QED
      BY <1>3, <1>4, <2>1, <2>2
  <1>7. \A r \in requests' : RequestOK(r)'
    BY <1>1 DEF IInv, RequestOK
  <1> QED
    BY <1>1, <1>2, <1>4, <1>5, <1>6, <1>7 DEF IInv, EpochCounts

LEMMA DesktopInvariant ==
    ASSUME IInv, NEW d \in Desktops, BeginEditing(d) \/ UpdateBlock(d)
    PROVE  IInv'
  <1>1. CASE BeginEditing(d)
    <2>1. local' \in [Desktops -> 0..MaxLocal]
      BY <1>1, BoundsAssumption DEF BeginEditing, IInv
    <2>2. UNCHANGED <<now, lease, block, held, waiting, requests, quota, grants>>
      BY <1>1 DEF BeginEditing
    <2> QED
      BY <2>1, <2>2 DEF IInv, EpochCounts, ClaimOK, HeldOnce, RequestOK
  <1>2. CASE UpdateBlock(d)
    <2> DEFINE claim == [NoClaim EXCEPT !.epoch = local[d]]
    <2>1. local[d] \in Nat
      <3>1. local[d] \in 0..MaxLocal /\ MaxLocal \in Nat
        BY BoundsAssumption DEF IInv
      <3> QED
        BY <3>1
    <2>2. claim \in Claims /\ claim.nth = 0
      BY <2>1 DEF NoClaim, Claims
    <2>3. d \in Clients /\ d \notin Tabs
      BY ClaimFacts DEF Clients
    <2>4. Post(d, "write", claim, NoMarker, "ours") /\ UNCHANGED <<held, local>>
      BY <1>2 DEF UpdateBlock, Send
    <2>5. waiting' \in [Clients -> Nat] /\ held' \in [Tabs -> Claims] /\ grants \in Nat
      BY <1>2, <2>3 DEF UpdateBlock, Send, IInv, EpochCounts
    <2>6. claim.nth <= grants
      BY <2>2, <2>5
    <2> HIDE DEF claim
    <2> QED
      BY <2>2, <2>3, <2>4, <2>5, <2>6, PostInvariant
  <1> QED
    BY <1>1, <1>2

LEMMA DecideInvariant ==
    ASSUME IInv, NEW c \in Clients, NEW keep \in {"ours", "theirs"}, Decide(c, keep)
    PROVE  IInv'
  <1>1. Post(c, "decide", NoClaim, block.marker, keep) /\ UNCHANGED <<held, local>>
    BY DEF Decide
  <1>2. waiting' \in [Clients -> Nat] /\ held' \in [Tabs -> Claims] /\ grants \in Nat
    BY <1>1 DEF Decide, IInv, EpochCounts
  <1>3. NoClaim \in Claims /\ NoClaim.epoch = 0 /\ NoClaim.nth = 0
    BY ClaimFacts
  <1> QED
    BY <1>1, <1>2, <1>3, PostInvariant

---------------------------------------------------------------------------
(* The server's steps. *)

(* A transaction that ends and neither grants nor gives a claim keeps the       *)
(* invariant if what it leaves of the row and the block fits it.               *)
LEMMA FinishInvariant ==
    ASSUME IInv, NEW r \in requests, Finish(r), UNCHANGED grants,
           lease' \in [dev : Devices, epoch : Nat, expires : Nat], lease'.epoch = lease.epoch,
           block'.text.dev \in Devices, block'.text.nth \in 0..grants,
           held' \in {held, [held EXCEPT ![r.from] = NoClaim]}
    PROVE  IInv'
  <1>1. requests' \subseteq requests /\ UNCHANGED <<now, local, quota>>
    BY DEF Finish
  <1>2. waiting' \in [Clients -> Nat]
    BY DEF Finish, IInv
  <1>3. NoClaim \in Claims /\ NoClaim.epoch = 0 /\ NoClaim.nth = 0
    BY ClaimFacts
  <1>4. held' \in [Tabs -> Claims] /\ \A u \in Tabs : held'[u] \in {held[u], NoClaim}
    BY <1>3 DEF IInv
  <1>5. \A u \in Tabs : ClaimOK(held[u])'
    BY <1>3, <1>4 DEF ClaimOK, IInv, EpochCounts
  <1>6. HeldOnce'
    <2> SUFFICES ASSUME NEW u \in Tabs, NEW v \in Tabs, u # v, held'[u] # NoClaim
                 PROVE  held'[u].epoch # held'[v].epoch
      BY DEF HeldOnce
    <2>1. held'[u] = held[u] /\ held[u] # NoClaim /\ held[u].epoch # held[v].epoch
      BY <1>4 DEF IInv, HeldOnce
    <2>2. held[u].epoch # 0
      BY <2>1, ClaimFacts DEF Claims, NoClaim
    <2> QED
      BY <1>3, <1>4, <2>1, <2>2
  <1>7. \A q \in requests' : RequestOK(q)'
    BY <1>1 DEF IInv, RequestOK
  <1> QED
    BY <1>1, <1>2, <1>4, <1>5, <1>6, <1>7 DEF IInv, EpochCounts

(* A grant takes an epoch above every claim there is.                          *)
LEMMA AcquireInvariant ==
    ASSUME IInv, NEW r \in requests, AcquireLease(r)
    PROVE  IInv'
  <1> DEFINE dev == Device[r.from]
             ok == ~HeldByAnother(lease, dev, r.began)
             claim == [epoch |-> lease.epoch + 1, nth |-> grants + 1]
  <1>1. RequestOK(r) /\ r.began \in Nat
    BY DEF IInv, AcquireLease, Finish, RequestOK, NotBegun
  <1>2. dev \in Devices
    BY <1>1 DEF RequestOK, Devices
  <1>3. CASE ~ok
    BY <1>3, FinishInvariant DEF AcquireLease, IInv
  <1>4. CASE ok
    <2>1. lease' = [dev |-> dev, epoch |-> lease.epoch + 1, expires |-> r.began + Term]
      BY <1>4 DEF AcquireLease, Granted
    <2>2. /\ lease.epoch = grants /\ grants \in Nat /\ grants' = grants + 1
          /\ UNCHANGED <<now, local, quota, block>> /\ requests' \subseteq requests
      BY <1>4 DEF AcquireLease, Finish, IInv, EpochCounts
    <2>3. waiting' \in [Clients -> Nat]
      BY DEF AcquireLease, Finish, IInv
    <2>4. lease' \in [dev : Devices, epoch : Nat, expires : Nat] /\ EpochCounts'
      BY <1>1, <1>2, <2>1, <2>2, BoundsAssumption DEF EpochCounts
    <2>5. held' = IF Awaited(r) THEN [held EXCEPT ![r.from] = claim] ELSE held
      <3>1. lease'.epoch = lease.epoch + 1
        BY <2>1
      <3>2. held' = IF Awaited(r) THEN [held EXCEPT ![r.from] = [epoch |-> lease'.epoch, nth |-> grants + 1]]
                    ELSE held
        BY <1>4 DEF AcquireLease
      <3> QED
        BY <3>1, <3>2
    <2>6. claim \in Claims /\ claim.epoch = claim.nth /\ claim.nth = grants + 1
      BY <2>2 DEF Claims
    <2>7. held' \in [Tabs -> Claims]
      BY <2>5, <2>6 DEF IInv
    <2>8. \A t \in Tabs : held'[t] = held[t] \/ (t = r.from /\ held'[t] = claim)
      BY <2>5 DEF IInv
    <2>9. \A t \in Tabs : held[t].epoch \in Nat /\ held[t].epoch = held[t].nth /\ held[t].nth <= grants
      BY ClaimFacts DEF Claims
    <2> HIDE DEF claim
    <2>10. \A t \in Tabs : ClaimOK(held[t])'
      BY <2>2, <2>6, <2>7, <2>8, <2>9 DEF ClaimOK
    <2>11. HeldOnce'
      BY <2>2, <2>6, <2>8, <2>9 DEF HeldOnce, IInv
    <2>12. \A q \in requests' : RequestOK(q)'
      BY <2>2 DEF IInv, RequestOK, Claims
    <2>13. block'.text.dev \in Devices /\ block'.text.nth \in 0..grants'
      BY <2>2 DEF IInv
    <2> QED
      BY <2>2, <2>3, <2>4, <2>7, <2>10, <2>11, <2>12, <2>13 DEF IInv
  <1> QED
    BY <1>3, <1>4

LEMMA RenewInvariant ==
    ASSUME IInv, NEW r \in requests, RenewLease(r)
    PROVE  IInv'
  <1>1. r.began \in Nat /\ lease.expires \in Nat /\ Term \in Nat
    BY BoundsAssumption DEF IInv, RenewLease, Finish, RequestOK, NotBegun
  <1>2. lease' \in {lease, [lease EXCEPT !.expires = r.began + Term]}
    BY DEF RenewLease, Renewed
  <1>3. lease' \in [dev : Devices, epoch : Nat, expires : Nat] /\ lease'.epoch = lease.epoch
    BY <1>1, <1>2 DEF IInv
  <1>4. Finish(r) /\ UNCHANGED <<block, grants>> /\ held' \in {held, [held EXCEPT ![r.from] = NoClaim]}
    BY DEF RenewLease
  <1> QED
    BY <1>3, <1>4, FinishInvariant DEF IInv

LEMMA ReleaseInvariant ==
    ASSUME IInv, NEW r \in requests, ReleaseLease(r)
    PROVE  IInv'
  <1>1. r.began \in Nat
    BY DEF IInv, ReleaseLease, Finish, RequestOK, NotBegun
  <1>2. lease' \in {lease, [lease EXCEPT !.expires = r.began]}
    BY DEF ReleaseLease, Released
  <1>3. lease' \in [dev : Devices, epoch : Nat, expires : Nat] /\ lease'.epoch = lease.epoch
    BY <1>1, <1>2 DEF IInv
  <1>4. Finish(r) /\ UNCHANGED <<block, held, grants>>
    BY DEF ReleaseLease
  <1> QED
    BY <1>3, <1>4, FinishInvariant DEF IInv

LEMMA MergeInvariant ==
    ASSUME IInv, NEW r \in requests, NEW order, MergeIncoming(r, order)
    PROVE  IInv'
  <1> DEFINE text == [id |-> <<r.from, r.n>>, dev |-> Device[r.from], nth |-> r.claim.nth]
  <1>1. RequestOK(r) /\ grants \in Nat
    BY DEF IInv, EpochCounts
  <1>2. text.dev \in Devices /\ text.nth \in 0..grants
    BY <1>1 DEF RequestOK, Devices, Claims
  <1>3. block'.text \in {block.text, text}
    BY DEF MergeIncoming, Merged
  <1> HIDE DEF text
  <1>4. Finish(r) /\ UNCHANGED <<lease, held, grants>>
    BY DEF MergeIncoming
  <1> QED
    BY <1>2, <1>3, <1>4, FinishInvariant DEF IInv

LEMMA ResolveInvariant ==
    ASSUME IInv, NEW r \in requests, ResolveConflict(r)
    PROVE  IInv'
  <1>1. RequestOK(r) /\ grants \in Nat
    BY DEF IInv, EpochCounts
  <1>2. Finish(r) /\ UNCHANGED <<lease, held, grants>>
    BY DEF ResolveConflict
  <1>3. block' = block \/ (block'.text.dev = Device[r.from] /\ block'.text.nth = 0)
    BY DEF ResolveConflict, Decided
  <1>4. block'.text.dev \in Devices /\ block'.text.nth \in 0..grants
    BY <1>1, <1>3 DEF IInv, RequestOK, Devices
  <1> QED
    BY <1>2, <1>4, FinishInvariant DEF IInv

LEMMA BeginInvariant ==
    ASSUME IInv, NEW r \in requests, Begin(r)
    PROVE  IInv'
  <1> DEFINE s == [r EXCEPT !.began = now]
  <1>1. UNCHANGED <<now, lease, block, held, local, quota, waiting, grants>>
    BY DEF Begin, clientVars
  <1>2. RequestOK(r) /\ now \in Nat
    BY DEF IInv
  <1>3. s.from = r.from /\ s.n = r.n /\ s.claim = r.claim /\ (s.began = now \/ s.began = r.began)
    OBVIOUS
  <1> HIDE DEF s
  <1>4. RequestOK(s)
    BY <1>2, <1>3 DEF RequestOK
  <1>5. \A q \in requests' : RequestOK(q)'
    BY <1>1, <1>4 DEF Begin, IInv, RequestOK, s
  <1> QED
    BY <1>1, <1>5 DEF IInv, EpochCounts, ClaimOK, HeldOnce

---------------------------------------------------------------------------
(* The steps together. *)

LEMMA NextInvariant == IInv /\ [Next]_vars => IInv'
  <1> SUFFICES ASSUME IInv, [Next]_vars PROVE IInv'
    OBVIOUS
  <1>1. CASE Tick
    <2>1. UNCHANGED <<lease, block, held, local, quota, waiting, requests, grants>>
      BY <1>1 DEF Tick, clientVars
    <2>2. now' \in Nat /\ now <= now'
      BY <1>1 DEF Tick, IInv
    <2>3. \A r \in requests' : RequestOK(r)'
      BY <2>1, <2>2 DEF IInv, RequestOK, NotBegun
    <2> QED
      BY <2>1, <2>2, <2>3 DEF IInv, EpochCounts, ClaimOK, HeldOnce
  <1>2. ASSUME NEW t \in Tabs,
               BeginEdit(t) \/ Type(t) \/ KeepEditing(t) \/ EndEdit(t) \/ Leave(t) \/ GiveUp(t)
        PROVE  IInv'
    BY <1>2, TabInvariant, GiveUpInvariant
  <1>3. ASSUME NEW d \in Desktops, BeginEditing(d) \/ UpdateBlock(d)
        PROVE  IInv'
    BY <1>3, DesktopInvariant
  <1>4. ASSUME NEW c \in Clients, Decide(c, "ours") \/ Decide(c, "theirs")
        PROVE  IInv'
    BY <1>4, DecideInvariant
  <1>5. ASSUME NEW r \in requests,
               \/ Begin(r) \/ AcquireLease(r) \/ RenewLease(r) \/ ReleaseLease(r) \/ ResolveConflict(r)
               \/ \E order \in {"before", "tie lost", "tie won", "after"} : MergeIncoming(r, order)
        PROVE  IInv'
    BY <1>5, BeginInvariant, AcquireInvariant, RenewInvariant, ReleaseInvariant, ResolveInvariant, MergeInvariant
  <1>6. CASE UNCHANGED vars
    BY <1>6 DEF vars, IInv, EpochCounts, ClaimOK, HeldOnce, RequestOK
  <1> QED
    BY <1>1, <1>2, <1>3, <1>4, <1>5, <1>6 DEF Next

LEMMA Invariance == Spec => []IInv
  <1> QED
    BY InitInvariant, NextInvariant, PTL DEF Spec

(* Every state is well typed.                                                  *)
THEOREM TypeCorrect == Spec => []TypeOK
  <1> QED
    BY Invariance, InvariantSuffices, PTL

(* Two tabs never hold the same epoch (acquireBlockLease, releaseBlockLease).   *)
THEOREM EpochsAreNotShared == Spec => []EpochsNotShared
  <1> QED
    BY Invariance, InvariantSuffices, PTL

---------------------------------------------------------------------------
(* What a step may do to the text. *)

(* A step that changes the text without deciding a conflict is a write that      *)
(* was not fenced.                                                             *)
LEMMA TextWrittenByMerge ==
    ASSUME IInv, [Next]_vars, TextWritten
    PROVE  \E r \in requests :
             /\ r.began # NotBegun
             /\ ~Penalised(lease, Device[r.from], r.claim.epoch, r.began)
             /\ block'.text.dev = Device[r.from]
             /\ block'.text.nth = r.claim.nth
             /\ UNCHANGED grants
  <1>1. block' # block
    BY DEF TextWritten
  <1>2. ASSUME NEW t \in Tabs,
               BeginEdit(t) \/ Type(t) \/ KeepEditing(t) \/ EndEdit(t) \/ Leave(t) \/ GiveUp(t)
        PROVE  UNCHANGED block
    BY <1>2 DEF BeginEdit, Type, KeepEditing, EndEdit, Leave, GiveUp, Send, Post
  <1>3. ASSUME NEW d \in Desktops, BeginEditing(d) \/ UpdateBlock(d)
        PROVE  UNCHANGED block
    BY <1>3 DEF BeginEditing, UpdateBlock, Send, Post
  <1>4. ASSUME NEW c \in Clients, Decide(c, "ours") \/ Decide(c, "theirs")
        PROVE  UNCHANGED block
    BY <1>4 DEF Decide, Post
  <1>5. ASSUME NEW r \in requests, Begin(r) \/ AcquireLease(r) \/ RenewLease(r) \/ ReleaseLease(r)
        PROVE  UNCHANGED block
    BY <1>5 DEF Begin, AcquireLease, RenewLease, ReleaseLease
  <1>6. ASSUME NEW r \in requests, ResolveConflict(r)
        PROVE  FALSE
    BY <1>1, <1>6 DEF ResolveConflict, Decided, TextWritten
  <1>7. Tick \/ UNCHANGED vars => UNCHANGED block
    BY DEF Tick, vars
  <1>8. PICK r \in requests, order \in {"before", "tie lost", "tie won", "after"} : MergeIncoming(r, order)
    BY <1>1, <1>2, <1>3, <1>4, <1>5, <1>6, <1>7 DEF Next
  <1> DEFINE text == [id |-> <<r.from, r.n>>, dev |-> Device[r.from], nth |-> r.claim.nth]
             fenced == Penalised(lease, Device[r.from], r.claim.epoch, r.began)
  <1>9. block'.text = block.text \/ (~fenced /\ block'.text = text)
    BY <1>8 DEF MergeIncoming, Merged
  <1>10. ~fenced /\ block'.text.dev = Device[r.from] /\ block'.text.nth = r.claim.nth
    <2>1. text.dev = Device[r.from] /\ text.nth = r.claim.nth
      OBVIOUS
    <2> HIDE DEF text, fenced
    <2>2. ~fenced /\ block'.text = text
      BY <1>9 DEF TextWritten
    <2> QED
      BY <2>1, <2>2
  <1>11. r.began # NotBegun /\ UNCHANGED grants
    BY <1>8 DEF MergeIncoming, Finish
  <1> QED
    BY <1>10, <1>11

(* Once a lease was granted, no write under an earlier one takes the text        *)
(* (fenceBlockWrite, penaltyOf, fenceText).                                    *)
THEOREM WritesAreFencedByEpoch == Spec => FencedByEpoch
  <1>1. IInv /\ [Next]_vars => [TextWritten /\ block'.text.nth # 0 => block'.text.nth = grants]_vars
    <2> SUFFICES ASSUME IInv, [Next]_vars, TextWritten, block'.text.nth # 0
                 PROVE  block'.text.nth = grants
      OBVIOUS
    <2>1. PICK r \in requests :
            /\ ~Penalised(lease, Device[r.from], r.claim.epoch, r.began)
            /\ block'.text.nth = r.claim.nth
      BY TextWrittenByMerge
    <2>2. RequestOK(r) /\ lease.epoch = grants
      BY DEF IInv, EpochCounts
    <2>3. r.from \in Tabs /\ r.claim.epoch = r.claim.nth /\ r.claim.epoch # 0
      BY <2>1, <2>2 DEF RequestOK, Clients
    <2>4. r.claim.epoch = lease.epoch
      BY <2>1, <2>3 DEF Penalised, Holds
    <2> QED
      BY <2>1, <2>2, <2>3, <2>4
  <1> QED
    BY <1>1, Invariance, PTL DEF Spec, FencedByEpoch

(* While a lease is live, only its device changes the text, however old the      *)
(* now() is that a waiting transaction judges by.                              *)
THEOREM LiveLeasesShield == Spec => LiveLeaseShields
  <1>1. IInv /\ [Next]_vars => [TextWritten /\ Live(lease, now) => block'.text.dev = lease.dev]_vars
    <2> SUFFICES ASSUME IInv, [Next]_vars, TextWritten, Live(lease, now)
                 PROVE  block'.text.dev = lease.dev
      OBVIOUS
    <2>1. PICK r \in requests :
            /\ r.began # NotBegun
            /\ ~Penalised(lease, Device[r.from], r.claim.epoch, r.began)
            /\ block'.text.dev = Device[r.from]
      BY TextWrittenByMerge
    <2>2. r.began \in Nat /\ r.began <= now /\ now \in Nat /\ lease.expires \in Nat
      BY <2>1 DEF IInv, RequestOK
    <2>3. Live(lease, r.began)
      BY <2>2 DEF Live
    <2> QED
      BY <2>1, <2>3 DEF Penalised, HeldByAnother, Holds
  <1> QED
    BY <1>1, Invariance, PTL DEF Spec, LiveLeaseShields
=============================================================================
