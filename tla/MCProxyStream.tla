---------------------------- MODULE MCProxyStream ----------------------------
(***************************************************************************)
(* ProxyStream for TLC, with the drain loop of push written as the loop it *)
(* is in the code, against which the fixpoint of ReorderReceiver is        *)
(* compared in every reachable state.                                      *)
(***************************************************************************)
EXTENDS ProxyStream

\* while let Some(next) = pending.remove(&expected)
RECURSIVE Drain(_, _)
Drain(r, out) ==
  IF r.expected \notin DOMAIN r.pending THEN [rx |-> r, out |-> out, ok |-> TRUE]
  ELSE LET next == r.pending[r.expected]
       IN  Drain([expected       |-> r.expected + Len(next),
                  pending        |-> [o \in DOMAIN r.pending \ {r.expected} |-> r.pending[o]],
                  buffered_bytes |-> r.buffered_bytes - Len(next)],
                 out \o next)

\* Consuming a chunk is what the loop computes: the same bytes in the same order,
\* the same chunks left over and the same count, for every chunk on its way to
\* the receiver.
DrainIsTheLoop ==
  cli = "open" =>
    \A f \in down : f.kind = "DATA" /\ f.off = rx.expected =>
      push(rx, f) = Drain([rx EXCEPT !.expected = @ + Len(f.data)], f.data)
=============================================================================
