------------------------- MODULE MCSessionMessages -------------------------
(* Clients a1 and a2 of one brain process, b1 of another; retries x1 and x2 of *)
(* a message, and another sender's y1.                                         *)
EXTENDS SessionMessages, TLC

CONSTANTS a1, a2, b1, x1, x2, y1, k1, k2

MCServer == (a1 :> 1) @@ (a2 :> 1) @@ (b1 :> 2)
MCMessage == (x1 :> 1) @@ (x2 :> 1) @@ (y1 :> 2)

LOCAL Load(conns, ids, tools, sends, n) == [conns |-> conns, calls |-> ids, tools |-> tools, sends |-> sends, faults |-> n]

\* Claims alone, of one process, of two, of three clients; then messages during a
\* takeover, in two processes and in one, with stale wakes meeting new attempts,
\* and with competing senders.
MCWorkloads ==
    {Load({a1, a2}, {k1, k2}, {"unregister"}, {}, 1),
     Load({a1, b1}, {k1}, {}, {}, 1),
     Load({a1, a2, b1}, {k1, k2}, {}, {}, 0),
     Load({a1, b1}, {k1}, {}, {x1}, 0),
     Load({a1, a2}, {k1}, {}, {x1}, 0),
     Load({a1}, {k1, k2}, {"unregister"}, {x1}, 0),
     Load({a1}, {k1}, {"ack"}, {x1, x2}, 1),
     Load({a1}, {k1}, {"ack"}, {x1, y1}, 0)}

\* Two clients of one process.
ReclaimWorkloads == {Load({a1, a2}, {k1}, {}, {}, 0)}
=============================================================================
