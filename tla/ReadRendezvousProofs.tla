------------------------ MODULE ReadRendezvousProofs ------------------------
(***************************************************************************)
(* Proofs about ReadRendezvous, for any attributes and any number of       *)
(* reads.  The inductive invariant says, of a read begun while no other    *)
(* was open, that only its own callbacks can run; that the semaphore and   *)
(* the ok flag of its channel are therefore its own; and that ok is set    *)
(* only while the buffer holds its data.                                   *)
(***************************************************************************)
EXTENDS ReadRendezvous, TLAPS

\* Reads not issued yet are unused, and the CHIP task works on issued ones.
Issued ==
    /\ \A r \in Reads : r > cur => stage[r] = "unused"
    /\ pc \in {"cleared", "ready"} => stage[cur] = "unused"
    /\ pc = "cleared" => kindOf[cur] \in RmwKinds

\* A buffer holds nothing from a read that has not been issued.
BufferIssued == \A k \in Kinds : buffer[k] <= cur

\* During a clean read no other read is open.
Alone ==
    pc # "idle" /\ clean => \A r \in Reads : Open(r) => r = cur

\* A clean read's semaphore is given only by its own completion.
OwnSignal ==
    clean =>
        /\ pc = "ready" => ~sem[ChannelOf(cur)]
        /\ pc = "waiting" /\ sem[ChannelOf(cur)] => ~Open(cur)
        /\ pc \in {"woken", "copy"} => ~Open(cur)

\* A clean read's ok flag is set only once its buffer holds its own data, or, for
\* the Thread diagnostics, is not being filled.
OwnData ==
    pc # "idle" /\ clean =>
        /\ ok[ChannelOf(cur)] =>
              /\ \/ buffer[kindOf[cur]] = cur
                 \/ kindOf[cur] \in DiagKinds /\ buffer[kindOf[cur]] # Torn
              /\ stage[cur] \in {"reported", "closed"}
              /\ chip = NoRead
        /\ pc = "copy" => ok[ChannelOf(cur)]

IInv == TypeOK /\ Issued /\ BufferIssued /\ Alone /\ OwnSignal /\ OwnData /\ QuiescentReadIsFaithful

-----------------------------------------------------------------------------

LEMMA ChannelType == ASSUME NEW k PROVE Channel(k) \in Channels
BY DEF Channel, Channels

LEMMA InitTypeOK == Init => TypeOK
BY BoundAssumption
   DEF Init, TypeOK, Kinds, Reads, Channels, Stages, Results, Statuses, NoRead, Torn

\* Every action keeps every variable in its range, and the CHIP task decodes
\* reports of reads that have been reported, one at a time.
LEMMA NextTypeOK == TypeOK /\ [Next]_vars => TypeOK'
<1> SUFFICES ASSUME TypeOK, [Next]_vars PROVE TypeOK'
    OBVIOUS
<1> USE BoundAssumption DEF TypeOK, Kinds, Reads, Stages, NoRead, Torn, ChannelOf
<1>1. ASSUME NEW k \in Kinds, Begin(k), pc' \in {"cleared", "ready"},
             buffer' \in [Kinds -> {Torn, NoRead} \union Reads]
      PROVE  TypeOK'
    BY <1>1 DEF Begin, Channel, Channels, Open
<1>2. ASSUME NEW k \in RmwKinds, BeginRmw(k) PROVE TypeOK'
    BY <1>1, <1>2 DEF BeginRmw
<1>3. CASE BeginOnOff
    BY <1>1, <1>3 DEF BeginOnOff
<1>4. CASE Drain
    BY <1>4 DEF Drain, Channels
<1>5. CASE NoMemory
    BY <1>5 DEF NoMemory, Return, Results, Statuses
<1>6. CASE Send
    BY <1>6 DEF Send
<1>7. CASE Wake
    BY <1>7 DEF Wake, Channel, Channels
<1>8. CASE Timeout
    BY <1>8 DEF Timeout, Return, Results, Statuses
<1>9. CASE Check
    BY <1>9 DEF Check, Return, Results, Statuses
<1>10. CASE Copy
    BY <1>10 DEF Copy, Return, Results, Statuses
<1>11. ASSUME NEW r \in Reads, ReportBegin(r) PROVE TypeOK'
    BY <1>11 DEF ReportBegin, httpdVars
<1>12. ASSUME NEW r \in Reads, ReportEnd(r) PROVE TypeOK'
    BY <1>12, ChannelType DEF ReportEnd, httpdVars
<1>13. ASSUME NEW r \in Reads, ReportUndecodable(r) PROVE TypeOK'
    BY <1>13, ChannelType
    DEF ReportUndecodable, ListUndecodable, FieldUndecodable, httpdVars
<1>14. ASSUME NEW r \in Reads, Done(r) PROVE TypeOK'
    BY <1>14, ChannelType DEF Done, httpdVars
<1>15. ASSUME NEW r \in Reads, Unreachable(r) PROVE TypeOK'
    BY <1>15 DEF Unreachable, httpdVars
<1>16. CASE UNCHANGED vars
    BY <1>16 DEF vars
<1>17. QED
    BY <1>2, <1>3, <1>4, <1>5, <1>6, <1>7, <1>8, <1>9, <1>10, <1>11, <1>12,
       <1>13, <1>14, <1>15, <1>16 DEF Next

\* Every variable of the read machinery stays in its range.
THEOREM TypeCorrect == Spec => []TypeOK
<1>1. QED BY InitTypeOK, NextTypeOK, PTL DEF Spec

-----------------------------------------------------------------------------

LEMMA InitIInv == Init => IInv
BY InitTypeOK
   DEF Init, IInv, Issued, BufferIssued, NoRead, Alone, OwnSignal, OwnData, QuiescentReadIsFaithful, Ended, Open

LEMMA NextIssued == TypeOK /\ Issued /\ [Next]_vars => Issued'
<1> SUFFICES ASSUME TypeOK, Issued, [Next]_vars PROVE Issued'
    OBVIOUS
<1> USE BoundAssumption DEF TypeOK, Issued, Reads, Stages
<1>2. ASSUME NEW k \in RmwKinds, BeginRmw(k) PROVE Issued'
    BY <1>2 DEF BeginRmw, Begin
<1>3. CASE BeginOnOff
    BY <1>3 DEF BeginOnOff, Begin
<1>4. CASE Drain \/ NoMemory \/ Send \/ Wake \/ Timeout \/ Check \/ Copy
    BY <1>4 DEF Drain, NoMemory, Send, Wake, Timeout, Check, Copy, Return
<1>5. ASSUME NEW r \in Reads,
             ReportBegin(r) \/ ReportEnd(r) \/ ReportUndecodable(r) \/ Done(r) \/ Unreachable(r)
      PROVE  Issued'
    BY <1>5 DEF ReportBegin, ReportEnd, ReportUndecodable, Done, Unreachable, Open, httpdVars
<1>6. CASE UNCHANGED vars
    BY <1>6 DEF vars
<1>7. QED
    BY <1>2, <1>3, <1>4, <1>5, <1>6 DEF Next

LEMMA NextBufferIssued == TypeOK /\ Issued /\ BufferIssued /\ [Next]_vars => BufferIssued'
<1> SUFFICES ASSUME TypeOK, Issued, BufferIssued, [Next]_vars PROVE BufferIssued'
    OBVIOUS
<1>0. cur \in Nat /\ \A q \in Kinds : buffer[q] \in Int /\ buffer[q] <= cur
    BY BoundAssumption DEF TypeOK, BufferIssued, Reads, NoRead, Torn
<1>1. ASSUME NEW k \in RmwKinds, BeginRmw(k) PROVE BufferIssued'
  <2>1. cur' = cur + 1
    BY <1>1 DEF BeginRmw, Begin
  <2>2. \A q \in Kinds : buffer'[q] \in {0, buffer[q]}
    BY <1>1 DEF BeginRmw, NoRead
  <2>3. QED
    BY <1>0, <2>1, <2>2 DEF BufferIssued
<1>7. CASE BeginOnOff
  <2>1. cur' = cur + 1
    BY <1>7 DEF BeginOnOff, Begin
  <2>2. \A q \in Kinds : buffer'[q] \in {0, buffer[q]}
    BY <1>7 DEF BeginOnOff, TypeOK, NoRead
  <2>3. QED
    BY <1>0, <2>1, <2>2 DEF BufferIssued
<1> USE BoundAssumption DEF TypeOK, Issued, BufferIssued, Reads, NoRead, Torn
<1>2. CASE Drain \/ NoMemory \/ Send \/ Wake \/ Timeout \/ Check \/ Copy
    BY <1>2 DEF Drain, NoMemory, Send, Wake, Timeout, Check, Copy, Return
<1>3. ASSUME NEW r \in Reads, ReportBegin(r) \/ ReportEnd(r) \/ ReportUndecodable(r)
      PROVE  BufferIssued'
  <2>1. r <= cur
    BY <1>3 DEF ReportBegin, ReportEnd, ReportUndecodable, Stages
  <2>2. QED
    BY <1>3, <2>1 DEF ReportBegin, ReportEnd, ReportUndecodable, ListUndecodable,
                      FieldUndecodable, httpdVars
<1>4. ASSUME NEW r \in Reads, Done(r) \/ Unreachable(r) PROVE BufferIssued'
    BY <1>4 DEF Done, Unreachable, httpdVars
<1>5. CASE UNCHANGED vars
    BY <1>5 DEF vars
<1>6. QED
    BY <1>1, <1>2, <1>3, <1>4, <1>5, <1>7 DEF Next

LEMMA NextAlone == TypeOK /\ Issued /\ Alone /\ [Next]_vars => Alone'
<1> SUFFICES ASSUME TypeOK, Issued, Alone, [Next]_vars PROVE Alone'
    OBVIOUS
<1> USE BoundAssumption DEF TypeOK, Alone, Open, Reads, Stages
<1>1. ASSUME NEW k, Begin(k) PROVE Alone'
    BY <1>1 DEF Begin
<1>2. ASSUME NEW k \in RmwKinds, BeginRmw(k) PROVE Alone'
    BY <1>1, <1>2 DEF BeginRmw
<1>3. CASE BeginOnOff
    BY <1>1, <1>3 DEF BeginOnOff
<1>4. CASE Drain \/ NoMemory \/ Wake \/ Timeout \/ Check \/ Copy
    BY <1>4 DEF Drain, NoMemory, Wake, Timeout, Check, Copy, Return
<1>8. CASE Send
  <2>1. UNCHANGED <<cur, clean>> /\ pc # "idle"
    BY <1>8 DEF Send
  <2>2. \A q \in Reads : q # cur => stage'[q] = stage[q]
    BY <1>8 DEF Send
  <2>3. QED
    BY <2>1, <2>2
<1>5. ASSUME NEW r \in Reads,
             ReportBegin(r) \/ ReportEnd(r) \/ ReportUndecodable(r) \/ Done(r) \/ Unreachable(r)
      PROVE  Alone'
  <2>1. UNCHANGED <<pc, cur, clean>>
    BY <1>5 DEF ReportBegin, ReportEnd, ReportUndecodable, Done, Unreachable, httpdVars
  <2>2. \A q \in Reads : stage'[q] \in {"sent", "reported"} => Open(q)
    BY <1>5 DEF ReportBegin, ReportEnd, ReportUndecodable, Done, Unreachable
  <2>3. QED
    BY <2>1, <2>2
<1>6. CASE UNCHANGED vars
    BY <1>6 DEF vars
<1>7. QED
    BY <1>2, <1>3, <1>4, <1>5, <1>6, <1>8 DEF Next

\* The semaphore of a clean read: a leftover signal is drained (or, for OnOff,
\* absent), and while the read waits the only task that can give it is its own.
LEMMA NextOwnSignal ==
    TypeOK /\ Issued /\ Alone /\ OwnSignal /\ [Next]_vars => OwnSignal'
<1> SUFFICES ASSUME TypeOK, Issued, Alone, OwnSignal, [Next]_vars PROVE OwnSignal'
    OBVIOUS
<1> USE BoundAssumption, KindsAssumption
    DEF TypeOK, Issued, Alone, OwnSignal, Open, Reads, Stages, ChannelOf
<1>1. ASSUME NEW k \in RmwKinds, BeginRmw(k) PROVE OwnSignal'
    BY <1>1 DEF BeginRmw, Begin
<1>2. CASE BeginOnOff
  <2>1. pc' = "ready" /\ cur' \in Reads /\ kindOf'[cur'] = OnOff /\ sem' = sem
    BY <1>2 DEF BeginOnOff, Begin
  <2>2. clean' => ~sem["onoff"]
    BY <1>2 DEF BeginOnOff, Begin
  <2>3. QED
    BY <2>1, <2>2 DEF Channel
<1>3. CASE Drain
    BY <1>3 DEF Drain, Channel, Channels
<1>4. CASE Send
    BY <1>4 DEF Send
<1>5. CASE Wake
    BY <1>5 DEF Wake
<1>6. CASE NoMemory \/ Timeout \/ Check \/ Copy
    BY <1>6 DEF NoMemory, Timeout, Check, Copy, Return
<1>7. ASSUME NEW r \in Reads, ReportBegin(r) \/ ReportEnd(r) \/ ReportUndecodable(r)
      PROVE  OwnSignal'
    BY <1>7 DEF ReportBegin, ReportEnd, ReportUndecodable, httpdVars
<1>8. ASSUME NEW r \in Reads, Done(r) PROVE OwnSignal'
    BY <1>8, ChannelType DEF Done, httpdVars
<1>9. ASSUME NEW r \in Reads, Unreachable(r) PROVE OwnSignal'
    BY <1>9 DEF Unreachable, httpdVars
<1>10. CASE UNCHANGED vars
    BY <1>10 DEF vars
<1>11. QED
    BY <1>1, <1>2, <1>3, <1>4, <1>5, <1>6, <1>7, <1>8, <1>9, <1>10 DEF Next

\* ok is cleared at the start, and only the clean read's own report can set it;
\* no other report can touch the buffer before it is copied.
LEMMA NextOwnData ==
    TypeOK /\ Issued /\ Alone /\ OwnData /\ [Next]_vars => OwnData'
<1> SUFFICES ASSUME TypeOK, Issued, Alone, OwnData, [Next]_vars PROVE OwnData'
    OBVIOUS
<1> USE BoundAssumption, KindsAssumption
    DEF TypeOK, Issued, Alone, OwnData, Open, Reads, Stages, ChannelOf
<1>1. ASSUME NEW k \in Kinds, Begin(k), pc' \in {"cleared", "ready"} PROVE OwnData'
  <2>1. cur' \in Reads /\ kindOf'[cur'] = k
    BY <1>1 DEF Begin
  <2>2. ~ok'[Channel(k)]
    BY <1>1, ChannelType DEF Begin
  <2>3. QED
    BY <1>1, <2>1, <2>2
<1>2. ASSUME NEW k \in RmwKinds, BeginRmw(k) PROVE OwnData'
    BY <1>1, <1>2 DEF BeginRmw, Kinds
<1>3. CASE BeginOnOff
    BY <1>1, <1>3 DEF BeginOnOff, Kinds
<1>4. CASE Drain \/ NoMemory \/ Wake \/ Timeout \/ Copy
    BY <1>4 DEF Drain, NoMemory, Wake, Timeout, Copy, Return
<1>5. CASE Send
    BY <1>5 DEF Send
<1>6. CASE Check
    BY <1>6 DEF Check, Return
<1>7. ASSUME NEW r \in Reads, ReportBegin(r) PROVE OwnData'
    BY <1>7 DEF ReportBegin, httpdVars
<1>8. ASSUME NEW r \in Reads, ReportEnd(r) PROVE OwnData'
  <2> SUFFICES ASSUME pc # "idle", clean PROVE OwnData'
    BY <1>8 DEF ReportEnd, httpdVars
  <2>1. r = cur /\ stage[r] = "reported"
    BY <1>8 DEF ReportEnd, NoRead
  <2>2. buffer'[kindOf[cur]] = cur /\ ok'[Channel(kindOf[cur])] /\ chip' = NoRead
    BY <1>8, <2>1, ChannelType DEF ReportEnd
  <2>3. QED
    BY <1>8, <2>1, <2>2 DEF ReportEnd, httpdVars
<1>9. ASSUME NEW r \in Reads, ReportUndecodable(r) PROVE OwnData'
  <2> SUFFICES ASSUME pc # "idle", clean PROVE OwnData'
    BY <1>9 DEF ReportUndecodable, httpdVars
  <2>1. r = cur /\ ~ok[Channel(kindOf[cur])] /\ stage[r] = "reported"
    BY <1>9 DEF ReportUndecodable, NoRead
  <2>2. CASE ListUndecodable(r)
    BY <1>9, <2>1, <2>2 DEF ReportUndecodable, ListUndecodable, httpdVars
  <2>3. CASE FieldUndecodable(r)
    BY <1>9, <2>1, <2>3, ChannelType DEF ReportUndecodable, FieldUndecodable, httpdVars
  <2>4. QED
    BY <1>9, <2>2, <2>3 DEF ReportUndecodable
<1>10. ASSUME NEW r \in Reads, Done(r) PROVE OwnData'
    BY <1>10 DEF Done, httpdVars
<1>11. ASSUME NEW r \in Reads, Unreachable(r) PROVE OwnData'
    BY <1>11 DEF Unreachable, httpdVars
<1>12. CASE UNCHANGED vars
    BY <1>12 DEF vars
<1>13. QED
    BY <1>2, <1>3, <1>4, <1>5, <1>6, <1>7, <1>8, <1>9, <1>10, <1>11, <1>12 DEF Next

LEMMA NextQuiescent ==
    TypeOK /\ OwnData /\ QuiescentReadIsFaithful /\ [Next]_vars => QuiescentReadIsFaithful'
<1> SUFFICES ASSUME TypeOK, OwnData, QuiescentReadIsFaithful, [Next]_vars
             PROVE  QuiescentReadIsFaithful'
    OBVIOUS
<1> USE DEF QuiescentReadIsFaithful, Ended
<1>1. CASE \/ \E k \in RmwKinds : BeginRmw(k)
           \/ BeginOnOff \/ Drain \/ Send \/ Wake
    BY <1>1 DEF BeginRmw, BeginOnOff, Drain, Send, Wake
<1>2. CASE NoMemory \/ Timeout
  <2>1. last'.status \in {"NO_MEM", "TIMEOUT"}
    BY <1>2 DEF NoMemory, Timeout, Return
  <2>2. QED
    BY <2>1
<1>3. CASE Check
    BY <1>3 DEF Check, Return
<1>4. CASE Copy
    BY <1>4 DEF Copy, Return, OwnData
<1>5. ASSUME NEW r \in Reads,
             ReportBegin(r) \/ ReportEnd(r) \/ ReportUndecodable(r) \/ Done(r) \/ Unreachable(r)
      PROVE  QuiescentReadIsFaithful'
    BY <1>5 DEF ReportBegin, ReportEnd, ReportUndecodable, Done, Unreachable, httpdVars
<1>6. CASE UNCHANGED vars
    BY <1>6 DEF vars
<1>7. QED
    BY <1>1, <1>2, <1>3, <1>4, <1>5, <1>6 DEF Next

LEMMA NextIInv == IInv /\ [Next]_vars => IInv'
BY NextTypeOK, NextIssued, NextBufferIssued, NextAlone, NextOwnSignal, NextOwnData, NextQuiescent DEF IInv

LEMMA Invariance == Spec => []IInv
BY InitIInv, NextIInv, PTL DEF Spec

\* A read begun while no other read is open returns ESP_OK only with its own data,
\* whatever the devices answer and whenever.
THEOREM QuiescentReads == Spec => []QuiescentReadIsFaithful
<1>1. IInv => QuiescentReadIsFaithful
    BY DEF IInv
<1>2. QED
    BY <1>1, Invariance, PTL

-----------------------------------------------------------------------------

\* In a read-modify-write read the semaphore is drained and ok cleared, so that either
\* stands for a callback that came since, of whatever read.
RmwSignals ==
    pc # "idle" /\ kindOf[cur] \in RmwKinds =>
        /\ pc \in {"ready", "waiting"} /\ sem["rmw"] => completed # {}
        /\ pc \in {"woken", "copy"} => completed # {}
        /\ ok["rmw"] => since # {}
        /\ pc = "copy" => ok["rmw"]

\* In an OnOff read ok stands for a value that was reported since it began.
OnOffSignals ==
    pc # "idle" /\ kindOf[cur] = OnOff =>
        /\ pc # "cleared"
        /\ ok["onoff"] => buffer[OnOff] \in since
        /\ pc = "copy" => ok["onoff"]

Signals == RmwSignals /\ OnOffSignals /\ RmwEndsOnNewCallbacks /\ OnOffValueIsCurrent

LEMMA ChannelOfKind ==
    /\ \A k \in RmwKinds : Channel(k) = "rmw" /\ k # OnOff
    /\ Channel(OnOff) = "onoff"
BY KindsAssumption DEF Channel

LEMMA InitSignals == Init => Signals
BY DEF Init, Signals, RmwSignals, OnOffSignals, RmwEndsOnNewCallbacks, OnOffValueIsCurrent, Ended

LEMMA NextSignals == TypeOK /\ Issued /\ Signals /\ [Next]_vars => Signals'
<1> SUFFICES ASSUME TypeOK, Issued, Signals, [Next]_vars PROVE Signals'
    OBVIOUS
<1> USE BoundAssumption, ChannelOfKind
    DEF TypeOK, Signals, RmwSignals, OnOffSignals, RmwEndsOnNewCallbacks, OnOffValueIsCurrent,
        Ended, Kinds, Reads, ChannelOf
<1>1. ASSUME NEW k \in Kinds, Begin(k), pc' = IF k = OnOff THEN "ready" ELSE "cleared"
      PROVE Signals'
  <2>1. cur' \in Reads /\ kindOf'[cur'] = k /\ ~ok'[Channel(k)]
    BY <1>1, ChannelType DEF Begin
  <2> QED
    BY <1>1, <2>1
<1>2. ASSUME NEW k \in RmwKinds, BeginRmw(k) PROVE Signals'
    BY <1>1, <1>2 DEF BeginRmw
<1>3. CASE BeginOnOff
    BY <1>1, <1>3 DEF BeginOnOff
<1>4. CASE Drain
    BY <1>4 DEF Drain, Channels
<1>5. CASE Send
    BY <1>5 DEF Send
<1>6. CASE Wake
    BY <1>6 DEF Wake, Channels
<1>7. CASE NoMemory \/ Timeout
    BY <1>7 DEF NoMemory, Timeout, Return
<1>8. CASE Check
    BY <1>8 DEF Check, Return
<1>9. CASE Copy
    BY <1>9 DEF Copy, Return
<1>10. ASSUME NEW r \in Reads, ReportBegin(r) \/ ReportUndecodable(r) PROVE Signals'
  <2>1. CASE ReportBegin(r)
    BY <2>1 DEF ReportBegin, httpdVars
  <2>2. CASE ReportUndecodable(r) /\ ListUndecodable(r)
    BY <2>2 DEF ReportUndecodable, ListUndecodable, httpdVars
  <2>3. CASE ReportUndecodable(r) /\ FieldUndecodable(r)
    <3>1. UNCHANGED <<pc, cur, kindOf, last, sem, completed, buffer>> /\ since' = since \union {r}
      BY <2>3 DEF ReportUndecodable, FieldUndecodable, httpdVars
    <3>2. Channel(kindOf[r]) = "rmw"
      BY <2>3, KindsAssumption DEF FieldUndecodable
    <3>3. ok'["rmw"] /\ ok'["onoff"] = ok["onoff"]
      BY <2>3, <3>2 DEF FieldUndecodable, Channels
    <3> QED
      BY <3>1, <3>3
  <2> QED
    BY <1>10, <2>1, <2>2, <2>3 DEF ReportUndecodable
<1>11. ASSUME NEW r \in Reads, ReportEnd(r) PROVE Signals'
  <2>1. UNCHANGED <<pc, cur, kindOf, last, sem, completed>> /\ since' = since \union {r}
    BY <1>11 DEF ReportEnd, httpdVars
  <2>2. ok["rmw"] => ok'["rmw"]
    BY <1>11 DEF ReportEnd, Channels
  <2>3. RmwSignals'
    BY <2>1, <2>2
  <2>4. CASE kindOf[r] = OnOff
    <3>1. buffer'[OnOff] = r /\ ok'["onoff"]
      BY <1>11, <2>4 DEF ReportEnd, Channels
    <3> QED
      BY <2>1, <2>3, <3>1
  <2>5. CASE kindOf[r] # OnOff
    <3>1. Channel(kindOf[r]) = "rmw"
      BY <2>5
    <3>2. buffer'[OnOff] = buffer[OnOff] /\ ok'["onoff"] = ok["onoff"]
      BY <1>11, <2>5, <3>1 DEF ReportEnd, Channels
    <3> QED
      BY <2>1, <2>3, <3>2
  <2> QED
    BY <2>4, <2>5
<1>12. ASSUME NEW r \in Reads, Done(r) PROVE Signals'
    BY <1>12 DEF Done, httpdVars
<1>13. ASSUME NEW r \in Reads, Unreachable(r) PROVE Signals'
    BY <1>13 DEF Unreachable, httpdVars
<1>14. CASE UNCHANGED vars
    BY <1>14 DEF vars
<1> QED
    BY <1>2, <1>3, <1>4, <1>5, <1>6, <1>7, <1>8, <1>9, <1>10, <1>11, <1>12, <1>13, <1>14 DEF Next

LEMMA SignalsAreKept == Spec => []Signals
<1>1. IInv /\ Signals /\ [Next]_vars => Signals'
    BY NextSignals DEF IInv
<1>2. QED
    BY <1>1, InitSignals, Invariance, PTL DEF Spec

\* Whatever is still open, a read of the read-modify-write machinery is ended by a
\* completion given after its drain.
THEOREM RmwEnds == Spec => []RmwEndsOnNewCallbacks
<1>1. Signals => RmwEndsOnNewCallbacks
    BY DEF Signals
<1>2. QED
    BY <1>1, SignalsAreKept, PTL

\* And an OnOff value that is returned was reported after it was asked for.
THEOREM OnOffIsCurrent == Spec => []OnOffValueIsCurrent
<1>1. Signals => OnOffValueIsCurrent
    BY DEF Signals
<1>2. QED
    BY <1>1, SignalsAreKept, PTL

-----------------------------------------------------------------------------

\* Every step of the machinery is a step of the promised read, or invisible to
\* its caller: asking and returning are the only steps that show, and a clean
\* read returns data only if it is its own.
LEMMA StepRefines == IInv /\ [Next]_vars => [Promise!Next]_(Promise!vars)
<1> SUFFICES ASSUME IInv, [Next]_vars PROVE [Promise!Next]_(Promise!vars)
    OBVIOUS
<1> USE DEF Promise!vars
<1>1. ASSUME NEW k \in Kinds, Begin(k), pc' \in {"cleared", "ready"} PROVE Promise!Ask
  <2>1. Quiet' \in BOOLEAN
    BY DEF Quiet
  <2> QED
    BY <1>1, <2>1 DEF Begin, Promise!Ask, IInv, TypeOK
<1>2. ASSUME NEW k \in RmwKinds, BeginRmw(k) PROVE Promise!Next
    BY <1>1, <1>2 DEF BeginRmw, Kinds, Promise!Next
<1>3. ASSUME BeginOnOff PROVE Promise!Next
    BY <1>1, <1>3 DEF BeginOnOff, Kinds, Promise!Next
<1>4. CASE Drain \/ Send \/ Wake
    BY <1>4 DEF Drain, Send, Wake, Quiet
<1>5. ASSUME NoMemory \/ Timeout PROVE Promise!Next
    BY <1>5 DEF NoMemory, Timeout, Return, Quiet, Promise!Next, Promise!Fail, Promise!Errors
<1>6. CASE Check
    BY <1>6 DEF Check, Return, Quiet, Promise!Next, Promise!Fail, Promise!Errors
<1>7. ASSUME Copy PROVE Promise!Answer
  <2>1. cur \in Reads /\ buffer[kindOf[cur]] \in {Torn, NoRead} \union Reads
    BY <1>7 DEF Copy, IInv, TypeOK
  <2>2. Quiet => buffer[kindOf[cur]] = cur
    BY <1>7, <2>1, BoundAssumption DEF Copy, IInv, OwnData, Quiet, Reads
  <2>3. buffer[kindOf[cur]] \in {Torn, NoRead} \union 1..cur
    BY <1>7, <2>1 DEF Copy, IInv, TypeOK, BufferIssued, Reads, Torn, NoRead
  <2>4. UNCHANGED Quiet
    BY <1>7 DEF Copy, Quiet
  <2>5. QED
    BY <1>7, <2>2, <2>3, <2>4 DEF Copy, Return, Promise!Answer
<1>8. ASSUME NEW r \in Reads,
             ReportBegin(r) \/ ReportEnd(r) \/ ReportUndecodable(r) \/ Done(r) \/ Unreachable(r)
      PROVE  UNCHANGED Promise!vars
    BY <1>8 DEF ReportBegin, ReportEnd, ReportUndecodable, Done, Unreachable, httpdVars, Quiet
<1>9. CASE UNCHANGED vars
    BY <1>9 DEF vars, Quiet
<1>10. QED
    BY <1>2, <1>3, <1>4, <1>5, <1>6, <1>7, <1>8, <1>9 DEF Next, Promise!Next

\* The read machinery implements the read its callers rely on (safety part).
THEOREM ReadRefinement == Spec => Promise!Spec
<1>1. Init => Promise!Init
    BY DEF Init, Promise!Init, Quiet
<1>2. QED
    BY <1>1, StepRefines, Invariance, PTL DEF Spec, Promise!Spec
=============================================================================
