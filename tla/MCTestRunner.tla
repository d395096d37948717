---------------------------- MODULE MCTestRunner ----------------------------
(* Suites for TestRunner, two files of up to four steps each.              *)
EXTENDS TestRunner

CONSTANTS on, off

D(n, u) == [num |-> n, unit |-> u]
Micro(n) == D(n, "us")

Test(timeout, steps) == [yaml |-> TRUE, timeout |-> timeout, steps |-> steps]
Send(net, v) == [op |-> "send", net |-> net, fits |-> TRUE, value |-> v]
TooLong(net) == [op |-> "send", net |-> net, fits |-> FALSE, value |-> on]
Set(net, k) == [op |-> "set", net |-> net, known |-> k]
Wait(d) == [op |-> "wait", time |-> d]
Expect(net, given, named, want, w) ==
  [op |-> "expect", net |-> net, given |-> given, named |-> named, want |-> want, within |-> w]
Present(net, w) == Expect(net, {"present"}, FALSE, TRUE, w)
Absent(net, w) == Expect(net, {"absent"}, FALSE, TRUE, w)
Equals(net, v, w) == Expect(net, {"equals"}, TRUE, {v}, w)
Fault(net, kind, delay, s, d) ==
  [op |-> "fault", net |-> net, kind |-> kind, delay |-> delay,
   byte |-> IF kind = "corrupt" THEN 1 ELSE None, mask |-> IF kind = "corrupt" THEN 1 ELSE None,
   start |-> s, duration |-> d]
Drop(net, s, d) == Fault(net, "drop", None, s, d)

\* Windows of nothing, of less than a poll, of two polls, beyond every budget.
FirstSteps(net) ==
  {Present(net, D(1, "s")), Expect(net, {"present"}, TRUE, FALSE, Micro(9)),
   Expect(net, {"greater_than"}, TRUE, {on, off}, None), Equals(net, on, Micro(3)),
   Equals(net, on, D(1, "s")), Drop(net, None, Micro(3)), Drop(net, Micro(4), None),
   Fault(net, "delay", Micro(3), None, Micro(3)), Fault(net, "corrupt", None, None, None),
   Set(net, TRUE), Wait(Micro(9))}
LaterSteps(net) ==
  {<<Present(net, Micro(3))>>, <<Absent(net, Micro(3))>>, <<Equals(net, off, Micro(3))>>,
   <<Send(net, on)>>, <<Set(net, FALSE)>>, <<Wait(Micro(4))>>, <<TooLong(net)>>,
   <<Send("unmapped", on)>>, <<Present("unmapped", Micro(3))>>,
   <<Drop(net, None, None), Wait(Micro(2))>>}

\* Files that load_spec refuses, and files whose mistake it does not look at.
BadFiles(net) ==
  {[Test(Micro(6), <<>>) EXCEPT !.yaml = FALSE],
   Test(Micro(6), <<Expect(net, {}, TRUE, {on}, None)>>),
   Test(Micro(6), <<Expect(net, {"present", "absent"}, FALSE, TRUE, None)>>),
   Test(Micro(6), <<Expect(net, {"less_than"}, FALSE, {on}, None)>>),
   Test(Micro(6), <<Wait(D(None, "s"))>>), Test(Micro(6), <<Absent(net, D(1, "h"))>>),
   Test(Micro(6), <<Fault(net, "delay", None, None, None)>>),
   Test(Micro(6), <<[Fault(net, "corrupt", None, None, None) EXCEPT !.mask = None]>>),
   Test(Micro(6), <<[Fault(net, "corrupt", None, None, None) EXCEPT !.byte = None]>>),
   Test(Micro(6), <<Drop(net, None, Micro(Top))>>),
   Test(D(6, ""), <<Wait(Micro(1))>>)}

\* Each suite is for one network, and is run on targets of both.
SuitesFor(net) ==
  LET first == {Test(Micro(6), <<a>> \o b) : a \in FirstSteps(net), b \in LaterSteps(net)}
      second == {Test(Micro(6), <<>>), Test(Micro(6), <<Wait(Micro(2)), Absent(net, Micro(3)), Send(net, Garbled)>>),
                 Test(Micro(6), <<Send(net, on), Equals(net, on, D(1, "s"))>>),
                 Test(D(1, "ms"), <<Wait(Micro(2)), Drop(net, None, Micro(4)), Wait(Micro(4))>>)}
  IN  {<<a, b>> : a \in first, b \in second} \cup {<<Test(Micro(6), <<>>), b>> : b \in BadFiles(net)}

MCSuites == SuitesFor("can") \cup SuitesFor("udp")

\* Faults whose duration is a day, or as long as there is.
WrapSuites ==
  {<<Test(D(1, "ms"), <<Wait(Micro(2)), Drop(net, s, d), Wait(Micro(6))>>)>> :
     net \in {"can", "udp"}, s \in {None, Micro(0)}, d \in {D(10, "s"), Micro(Top - 1)}}
=============================================================================
