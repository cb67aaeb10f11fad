---------------------------- MODULE MC_PageFaults ---------------------------
EXTENDS PageFaults

Req(i, u, s, p, a, t) == [id |-> i, utlb |-> u, space |-> s, page |-> p, access |-> a, type |-> t]
R1 == Req(1, 0, 0, 0, "read", "pte")
R2 == Req(2, 0, 0, 1, "write", "pte")       \* fatal: the page is read-only
R3 == Req(3, 1, 1, 2, "read", "pte")
R4 == Req(4, 1, 0, 0, "prefetch", "pte")
R5 == Req(5, 1, 1, 3, "read", "fatal")
R6 == Req(6, 1, 0, 2, "read", "pte")
MCRequests == {R1, R2, R3, R4, R5, R6}
MCAllowed == [p \in 0 .. 3 |-> IF p = 1 THEN 1 ELSE 3]

Plain == [policy |-> "BATCH", requests |-> {}, channels |-> {1}, oom |-> 0, throttles |-> 0,
          reuse |-> {}]
TwoChannelSetups == {[Plain EXCEPT !.requests = {R1, R2, R4}, !.channels = {1, 2}, !.throttles = 1]}
PassSetups ==
  {[Plain EXCEPT !.requests = {R1, R2, R3}],
   [Plain EXCEPT !.requests = {R3, R5}, !.policy = "BLOCK", !.throttles = 1],
   [Plain EXCEPT !.requests = {R1, R2}, !.policy = "BLOCK", !.oom = 1],
   [Plain EXCEPT !.requests = {R1, R3}, !.policy = "BATCH_FLUSH", !.throttles = 1],
   [Plain EXCEPT !.requests = {R1, R3}, !.oom = 1],
   [Plain EXCEPT !.requests = {R1, R3, R4}, !.policy = "ONCE"],
   [Plain EXCEPT !.requests = {R3}, !.channels = {1, 2}, !.reuse = {"channel", "range"}],
   [Plain EXCEPT !.requests = {R1, R4}, !.policy = "ONCE", !.reuse = {"range"}],
   [Plain EXCEPT !.requests = {R1, R3}, !.policy = "BLOCK", !.reuse = {"range"}],
   [Plain EXCEPT !.requests = {R2, R6}],
   [Plain EXCEPT !.requests = {R5}, !.reuse = {"channel"}]}
  \union TwoChannelSetups
CancelledSetups == {[Plain EXCEPT !.requests = {R1, R5, R6}, !.oom = 1]}
============================================================================
