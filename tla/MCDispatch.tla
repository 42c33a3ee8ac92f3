------------------------------ MODULE MCDispatch ------------------------------
(* Small sets of commands with which TLC checks Dispatch.                    *)
EXTENDS Dispatch

S(kind, moves, streams, limits) ==
  [kind |-> kind, generator |-> moves, lerp |-> streams, limited |-> limits]

MCShape ==
  { S("idle", FALSE, FALSE, FALSE),
    S("joint", FALSE, FALSE, FALSE),
    S("cart", FALSE, TRUE, FALSE),
    S("cart", FALSE, FALSE, FALSE),
    S("cart", TRUE, TRUE, FALSE),
    S("hybrid", FALSE, TRUE, TRUE),
    S("hybrid", FALSE, TRUE, FALSE),
    S("hybrid", FALSE, FALSE, TRUE),
    S("bad", FALSE, FALSE, FALSE) }
==============================================================================
