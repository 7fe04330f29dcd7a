--------------------------- MODULE LiveFeedProofs ---------------------------
(***************************************************************************)
(* What the live screen may rely on, for any number of publishes, faults,  *)
(* mounts and probes.                                                      *)
(*                                                                         *)
(* The stream is a queue, and the proofs look at its two ends: StreamInv   *)
(* says what the last message of the queue can be, which is all a publish, *)
(* a first event or the end of a stream changes; the browser takes from    *)
(* the front.  ProbeInv says whose probes are still acted on.              *)
(***************************************************************************)
EXTENDS LiveFeed, SequenceTheorems, TLAPS

\* What the last message under way is.
Last == channel[Len(channel)]

\* NoListIsSkipped, LagsOnePublish and StaleListIsMarked are inductive with what
\* the end of the queue says of a stream that is written to, or is not any more.
StreamInv ==
  /\ ~up => handler = "none"
  /\ handler = "loaded" => live \in seen \cup UnderWay \cup {first}
  /\ handler = "loaded" => live \in {first, first + 1}
  /\ NoListIsSkipped
  /\ handler = "parked" =>
       IF channel = <<>> THEN live \in {shown, shown + 1}
       ELSE \E list \in List : Last = Sent(list) /\ live \in {list, list + 1}
  /\ channel # <<>> => Listening \/ Last = Ended
  /\ StaleListIsMarked
  /\ \A i \in 1 .. Len(channel) : channel[i] = Ended => handler = "none"

\* Only a hook that is mounted has probes it still wants the answer of, and a 401
\* among them means that the session is over.
ProbeInv ==
  \A p \in Probes : probe[p].stage # "none" /\ ~probe[p].cancelled =>
    /\ mounted
    /\ probe[p].stage = "unauthorized" => ~session

\* The connection belongs to a hook that is mounted.
TabInv == source # "closed" \/ channel # <<>> \/ handler # "none" => mounted

\* A message under way is one of three kinds.
LEMMA KindsOfMessages ==
  /\ Opened \in Messages /\ Ended \in Messages
  /\ \A list \in List : Sent(list) \in Messages
  /\ Opened # Ended
  /\ \A list \in List : Sent(list) # Opened /\ Sent(list) # Ended
                        /\ Sent(list).type = "sessions" /\ Sent(list).list = list
  /\ Opened.type # "sessions" /\ Ended.type # "sessions"
  /\ \A m \in Messages : m.type = "sessions" => m.list \in List /\ m = Sent(m.list)
  <1>1. Opened.type = "open" /\ Ended.type = "end"
    BY DEF Opened, Ended
  <1>2. \A list \in List : Sent(list).type = "sessions" /\ Sent(list).list = list
    BY DEF Sent
  <1>3. \A list \in List : Sent(list) \in Messages
    BY DEF Messages
  <1>4. \A m \in Messages : m = Opened \/ m = Ended \/ \E list \in List : m = Sent(list)
    BY DEF Messages
  <1>5. Opened \in Messages /\ Ended \in Messages
    BY DEF Messages
  <1> HIDE DEF Opened, Ended, Sent, Messages
  <1>6. Opened # Ended
    BY <1>1
  <1>7. \A list \in List : Sent(list) # Opened /\ Sent(list) # Ended
    BY <1>1, <1>2
  <1>8. \A m \in Messages : m.type = "sessions" => m.list \in List /\ m = Sent(m.list)
    BY <1>1, <1>2, <1>4
  <1> QED
    BY <1>1, <1>2, <1>3, <1>5, <1>6, <1>7, <1>8

\* handleError asks about the session, whatever it was told.
LEMMA ErrorType ==
  ASSUME TypeOK, NEW p \in Probes, HandleError(p)
  PROVE  /\ probe' \in [Probes -> [stage : ProbeStages, cancelled : BOOLEAN]]
         /\ UNCHANGED <<shown, mounted>>
         /\ connected' = FALSE
  BY DEF TypeOK, HandleError, ProbeStages

\* A probe that told nothing is over.
LEMMA UntoldType ==
  ASSUME TypeOK, NEW p \in Probes, Untold(p)
  PROVE  /\ probe' \in [Probes -> [stage : ProbeStages, cancelled : BOOLEAN]]
         /\ probe' = [probe EXCEPT ![p] = NoProbe]
         /\ stranded' \in BOOLEAN
  <1>1. NoProbe \in [stage : ProbeStages, cancelled : BOOLEAN]
    BY DEF NoProbe, ProbeStages
  <1>2. probe' = [probe EXCEPT ![p] = NoProbe]
    BY DEF Untold
  <1>3. probe' \in [Probes -> [stage : ProbeStages, cancelled : BOOLEAN]]
    BY <1>1, <1>2 DEF TypeOK
  <1>4. stranded' \in BOOLEAN
    BY Zenon DEF Untold
  <1> QED
    BY <1>2, <1>3, <1>4

\* The cleanup cancels probes and nothing else.
LEMMA CancelledType ==
  ASSUME TypeOK
  PROVE  /\ Cancelled \in [Probes -> [stage : ProbeStages, cancelled : BOOLEAN]]
         /\ \A p \in Probes : Cancelled[p].stage # "none" => Cancelled[p].cancelled
  BY DEF TypeOK, Cancelled, NoProbe, ProbeStages

\* Every step keeps the types.
LEMMA TypeStep == TypeOK /\ [Next]_vars => TypeOK'
  <1> SUFFICES ASSUME TypeOK, [Next]_vars PROVE TypeOK'
    OBVIOUS
  <1> USE LiveAssumption
  <1>0. /\ \A m \in Messages : Append(channel, m) \in Seq(Messages)
        /\ <<>> \in Seq(Messages)
    BY AppendProperties DEF TypeOK
  <1>1. CASE Publish
    <2>1. live + 1 \in List
      BY <1>1 DEF Publish, TypeOK, List
    <2>2. channel' \in Seq(Messages)
      BY <1>0, <1>1, <2>1, KindsOfMessages DEF Publish, TypeOK
    <2> QED
      BY <1>1, <2>1, <2>2 DEF Publish, TypeOK, screen, bounds
  <1>2. CASE Accept
    <2>1. channel' \in Seq(Messages)
      BY <1>2, KindsOfMessages DEF Accept, TypeOK
    <2> QED
      BY <1>2, <2>1 DEF Accept, TypeOK, screen, bounds
  <1>3. CASE LoadCurrent \/ WriteFirst
    <2>1. channel' \in Seq(Messages)
      BY <1>0, <1>3, KindsOfMessages DEF LoadCurrent, WriteFirst, TypeOK
    <2> QED
      BY <1>3, <2>1 DEF LoadCurrent, WriteFirst, TypeOK, screen, bounds
  <1>4. CASE Stop
    <2>1. channel' \in Seq(Messages)
      BY <1>0, <1>4, KindsOfMessages DEF Stop, TypeOK
    <2>2. faults' \in 0 .. MaxFaults
      BY <1>4 DEF Stop, TypeOK
    <2> QED
      BY <1>4, <2>1, <2>2 DEF Stop, TypeOK, screen, bounds
  <1>5. CASE Start \/ SessionEnds \/ SignIn \/ Retry \/ UNCHANGED vars
    <2>1. live' \in List
      BY <1>5 DEF Start, SessionEnds, SignIn, Retry, vars, TypeOK, List
    <2>2. CASE Start
      BY <2>1, <2>2 DEF Start, TypeOK, stream, screen, bounds
    <2>3. CASE SessionEnds
      BY <2>1, <2>3 DEF SessionEnds, TypeOK, stream, screen, bounds
    <2>4. CASE SignIn
      BY <2>1, <2>4 DEF SignIn, TypeOK, stream, screen, bounds
    <2>5. CASE Retry
      BY <2>1, <2>5 DEF Retry, TypeOK, stream, screen, bounds
    <2>6. CASE UNCHANGED vars
      BY <2>6 DEF vars, TypeOK, stream, screen, bounds
    <2> QED
      BY <1>5, <2>2, <2>3, <2>4, <2>5, <2>6
  <1>6. CASE Mount
    <2>1. mounts' \in 0 .. MaxMounts /\ shown' \in List
      BY <1>6 DEF Mount, TypeOK, List
    <2> QED
      BY <1>6, <2>1 DEF Mount, TypeOK, stream
  <1>7. CASE Leave
    <2> QED
      BY <1>0, <1>7, CancelledType DEF Leave, Unmount, TypeOK, bounds
  <1>11. CASE ReceiveOpen \/ ReceiveSessions
    <2>0. channel \in Seq(Messages) /\ channel # <<>>
      BY <1>11 DEF ReceiveOpen, ReceiveSessions, TypeOK
    <2>1. Tail(channel) \in Seq(Messages) /\ Head(channel) \in Messages
      BY <2>0, HeadTailProperties
    <2>2. channel' \in Seq(Messages)
      BY <1>11, <2>1 DEF ReceiveOpen, ReceiveSessions
    <2>3. shown' \in List /\ seen' \subseteq List
      BY <1>11, <2>1, KindsOfMessages DEF ReceiveOpen, ReceiveSessions, TypeOK
    <2>4. CASE ReceiveOpen
      BY <2>2, <2>3, <2>4 DEF ReceiveOpen, TypeOK, bounds
    <2>5. CASE ReceiveSessions
      BY <2>2, <2>3, <2>5 DEF ReceiveSessions, TypeOK, bounds
    <2> QED
      BY <1>11, <2>4, <2>5
  <1>8. ASSUME NEW p \in Probes, ReceiveEnd(p) \/ Break(p) \/ Unreachable(p)
                                 \/ Refuse(p) \/ HandshakeFails(p)
        PROVE  TypeOK'
    <2>1. HandleError(p)
      BY <1>8 DEF ReceiveEnd, Break, Unreachable, Refuse, HandshakeFails
    <2>2. channel' \in Seq(Messages)
      BY <1>0, <1>8 DEF ReceiveEnd, Break, Unreachable, Refuse, HandshakeFails, TypeOK, stream
    <2>3. faults' \in 0 .. MaxFaults /\ mounts' = mounts
      BY <1>8 DEF ReceiveEnd, Break, Unreachable, Refuse, HandshakeFails, TypeOK, bounds
    <2>4. /\ source' \in {"handshake", "answered", "open", "retrying", "closed"}
          /\ stranded' \in BOOLEAN
      BY <1>8 DEF ReceiveEnd, Break, Unreachable, Refuse, HandshakeFails, TypeOK
    <2>5. handler' \in {"none", "subscribed", "loaded", "parked"}
      BY <1>8 DEF ReceiveEnd, Break, Unreachable, Refuse, HandshakeFails, TypeOK, stream
    <2>6. UNCHANGED <<up, live, first, status, session, seen>>
      BY <1>8 DEF ReceiveEnd, Break, Unreachable, Refuse, HandshakeFails, stream
    <2> QED
      BY <2>1, <2>2, <2>3, <2>4, <2>5, <2>6, ErrorType DEF TypeOK
  <1>9. ASSUME NEW p \in Probes, AnswerProbe(p) \/ ProbeFails(p) PROVE TypeOK'
    <2>1. probe' \in [Probes -> [stage : ProbeStages, cancelled : BOOLEAN]]
      BY <1>9 DEF AnswerProbe, ProbeFails, TypeOK, ProbeStages
    <2>2. faults' \in 0 .. MaxFaults /\ mounts' = mounts
      BY <1>9 DEF AnswerProbe, ProbeFails, TypeOK, bounds
    <2> QED
      BY <1>9, <2>1, <2>2 DEF AnswerProbe, ProbeFails, TypeOK, stream, screen
  <1>12. ASSUME NEW p \in Probes, LoseProbe(p) \/ BreakProbe(p) PROVE TypeOK'
    <2>1. Untold(p)
      BY <1>12 DEF LoseProbe, BreakProbe
    <2>2. faults' \in 0 .. MaxFaults /\ mounts' = mounts
      BY <1>12 DEF LoseProbe, BreakProbe, TypeOK, bounds
    <2> QED
      BY <1>12, <2>1, <2>2, UntoldType DEF LoseProbe, BreakProbe, TypeOK, stream, screen
  <1>10. ASSUME NEW p \in Probes, ReceiveProbe(p) PROVE TypeOK'
    <2>1. /\ probe' \in [Probes -> [stage : ProbeStages, cancelled : BOOLEAN]]
          /\ stranded' \in BOOLEAN
      <3>1. NoProbe \in [stage : ProbeStages, cancelled : BOOLEAN]
        BY DEF NoProbe, ProbeStages
      <3>2. CASE Untold(p)
        BY <3>2, UntoldType
      <3>3. CASE ~Untold(p)
        <4>1. /\ stranded' = stranded
              /\ \/ probe' = [probe EXCEPT ![p] = NoProbe]
                 \/ probe' = [Cancelled EXCEPT ![p] = NoProbe]
          BY <1>10, <3>3 DEF ReceiveProbe
        <4> QED
          BY <3>1, <4>1, CancelledType DEF TypeOK
      <3> QED
        BY <3>2, <3>3
    <2>2. /\ status' \in {"authenticated", "anonymous"}
          /\ mounted' => status' = "authenticated"
          /\ mounted' \in BOOLEAN
          /\ connected' \in BOOLEAN
      BY <1>10 DEF ReceiveProbe, Unmount, TypeOK, screen
    <2>3. /\ channel' \in Seq(Messages)
          /\ handler' \in {"none", "subscribed", "loaded", "parked"}
          /\ source' \in {"handshake", "answered", "open", "retrying", "closed"}
          /\ UNCHANGED <<first, shown>>
      BY <1>0, <1>10 DEF ReceiveProbe, Unmount, TypeOK, stream, screen
    <2> QED
      BY <1>10, <2>1, <2>2, <2>3 DEF ReceiveProbe, TypeOK, bounds
  <1> QED
    BY <1>1, <1>2, <1>3, <1>4, <1>5, <1>6, <1>7, <1>8, <1>9, <1>10, <1>11, <1>12
       DEF Next

\* Every step leaves a closed screen without a connection.
LEMMA TabStep == TypeOK /\ TabInv /\ [Next]_vars => TabInv'
  <1> SUFFICES ASSUME TypeOK, TabInv, [Next]_vars PROVE TabInv'
    OBVIOUS
  <1>1. CASE Publish \/ LoadCurrent \/ WriteFirst \/ Stop
    BY <1>1 DEF Publish, LoadCurrent, WriteFirst, Stop, Listening, TabInv, screen
  <1>2. CASE Accept \/ Start \/ SessionEnds \/ SignIn \/ Retry \/ UNCHANGED vars
    BY <1>2 DEF Accept, Start, SessionEnds, SignIn, Retry, vars, TabInv, stream, screen
  <1>3. CASE Mount \/ Leave
    BY <1>3 DEF Mount, Leave, Unmount, TabInv
  <1>4. CASE ReceiveOpen \/ ReceiveSessions
    BY <1>4 DEF ReceiveOpen, ReceiveSessions, TabInv
  <1>5. ASSUME NEW p \in Probes, ReceiveEnd(p) \/ Break(p) \/ Unreachable(p)
                                 \/ Refuse(p) \/ HandshakeFails(p)
        PROVE  TabInv'
    BY <1>5 DEF ReceiveEnd, Break, Unreachable, Refuse, HandshakeFails, HandleError,
       TabInv, stream
  <1>6. ASSUME NEW p \in Probes, AnswerProbe(p) \/ ProbeFails(p) \/ ReceiveProbe(p)
                                 \/ LoseProbe(p) \/ BreakProbe(p)
        PROVE  TabInv'
    BY <1>6 DEF AnswerProbe, ProbeFails, ReceiveProbe, LoseProbe, BreakProbe, Unmount,
       TabInv, stream, screen
  <1> QED
    BY <1>1, <1>2, <1>3, <1>4, <1>5, <1>6 DEF Next

-----------------------------------------------------------------------------
(* The probes.                                                              *)

\* Every step keeps what a wanted 401 means: the cleanup cancels the hook's probes
\* before anybody can sign in again.
LEMMA ProbeStep == TypeOK /\ TabInv /\ ProbeInv /\ [Next]_vars => ProbeInv'
  <1> SUFFICES ASSUME TypeOK, TabInv, ProbeInv, [Next]_vars PROVE ProbeInv'
    OBVIOUS
  <1>1. CASE Publish \/ Accept \/ LoadCurrent \/ WriteFirst \/ Stop \/ Start
             \/ SessionEnds \/ ReceiveOpen \/ ReceiveSessions \/ Retry \/ UNCHANGED vars
    BY <1>1 DEF Publish, Accept, LoadCurrent, WriteFirst, Stop, Start, SessionEnds,
       ReceiveOpen, ReceiveSessions, Retry, vars, screen, ProbeInv
  <1>2. CASE Mount
    BY <1>2 DEF Mount, ProbeInv
  <1>3. CASE Leave
    BY <1>3, CancelledType DEF Leave, Unmount, ProbeInv
  \* Nobody signs in with the screen open.
  <1>4. CASE SignIn
    BY <1>4 DEF SignIn, screen, ProbeInv, TypeOK
  <1>5. ASSUME NEW p \in Probes, ReceiveEnd(p) \/ Break(p) \/ Unreachable(p)
                                 \/ Refuse(p) \/ HandshakeFails(p)
        PROVE  ProbeInv'
    <2>1. HandleError(p) /\ session' = session
      BY <1>5 DEF ReceiveEnd, Break, Unreachable, Refuse, HandshakeFails
    <2>2. mounted
      BY <1>5 DEF ReceiveEnd, Break, Unreachable, Refuse, HandshakeFails, TabInv
    <2> QED
      BY <2>1, <2>2 DEF HandleError, ProbeInv, TypeOK
  <1>6. ASSUME NEW p \in Probes, AnswerProbe(p) \/ ProbeFails(p) \/ LoseProbe(p)
                                 \/ BreakProbe(p)
        PROVE  ProbeInv'
    <2>1. CASE AnswerProbe(p) \/ ProbeFails(p)
      BY <2>1 DEF AnswerProbe, ProbeFails, ProbeInv, TypeOK, screen
    <2>2. CASE LoseProbe(p) \/ BreakProbe(p)
      <3>1. Untold(p) /\ UNCHANGED <<mounted, session>>
        BY <2>2 DEF LoseProbe, BreakProbe, screen
      <3> QED
        BY <3>1, UntoldType DEF ProbeInv, TypeOK, NoProbe
    <2> QED
      BY <1>6, <2>1, <2>2
  <1>7. ASSUME NEW p \in Probes, ReceiveProbe(p) PROVE ProbeInv'
    <2>1. CASE Untold(p)
      <3>1. probe' = [probe EXCEPT ![p] = NoProbe] /\ session' = session
        BY <1>7, <2>1, UntoldType DEF ReceiveProbe
      <3>2. CASE mounted' = mounted
        BY <3>1, <3>2 DEF ProbeInv, TypeOK, NoProbe
      <3>3. CASE mounted' # mounted
        <4>1. probe' = [Cancelled EXCEPT ![p] = NoProbe]
          BY <1>7, <3>3 DEF ReceiveProbe, Unmount, screen
        <4> QED
          BY <4>1, CancelledType DEF ProbeInv, NoProbe
      <3> QED
        BY <3>2, <3>3
    <2>2. CASE ~Untold(p)
      BY <1>7, <2>2, CancelledType DEF ReceiveProbe, Unmount, ProbeInv, TypeOK, screen,
         NoProbe
    <2> QED
      BY <2>1, <2>2
  <1> QED
    BY <1>1, <1>2, <1>3, <1>4, <1>5, <1>6, <1>7 DEF Next

-----------------------------------------------------------------------------
(* The stream.                                                              *)

\* What writing a message to the stream changes.
LEMMA Written ==
  ASSUME TypeOK, NEW m \in Messages, channel' = Append(channel, m)
  PROVE  /\ channel' # <<>>
         /\ Last' = m
         /\ UnderWay \subseteq UnderWay'
         /\ m.type = "sessions" => m.list \in UnderWay'
         /\ (\E i \in 1 .. Len(channel') : channel'[i] = Ended) =>
              m = Ended \/ \E i \in 1 .. Len(channel) : channel[i] = Ended
  <1>1. channel \in Seq(Messages) /\ Len(channel) \in Nat
    BY DEF TypeOK
  <1>2. /\ channel' # <<>>
        /\ Len(channel') = Len(channel) + 1
        /\ \A i \in 1 .. Len(channel) : channel'[i] = channel[i]
        /\ channel'[Len(channel) + 1] = m
    BY <1>1, AppendProperties
  <1>3. \A i \in 1 .. Len(channel) : i \in 1 .. Len(channel')
    BY <1>1, <1>2
  <1>4. Len(channel) + 1 \in 1 .. Len(channel')
    BY <1>1, <1>2
  <1>5. \A i \in 1 .. Len(channel') : i \in 1 .. Len(channel) \/ i = Len(channel) + 1
    BY <1>1, <1>2
  <1>6. UnderWay \subseteq UnderWay'
    BY <1>2, <1>3 DEF UnderWay
  <1>7. m.type = "sessions" => m.list \in UnderWay'
    BY <1>2, <1>4 DEF UnderWay
  <1>8. (\E i \in 1 .. Len(channel') : channel'[i] = Ended) =>
          m = Ended \/ \E i \in 1 .. Len(channel) : channel[i] = Ended
    BY <1>2, <1>5
  <1> QED
    BY <1>2, <1>6, <1>7, <1>8 DEF Last

\* What taking one changes.
LEMMA Taken ==
  ASSUME TypeOK, channel # <<>>, channel' = Tail(channel)
  PROVE  /\ Head(channel) \in Messages
         /\ channel' # <<>> => Last' = Last
         /\ channel' = <<>> => Last = Head(channel)
         /\ \A list \in UnderWay : \/ list \in UnderWay'
                                   \/ /\ Head(channel).type = "sessions"
                                      /\ list = Head(channel).list
         /\ (\E i \in 1 .. Len(channel') : channel'[i] = Ended) =>
              \E i \in 1 .. Len(channel) : channel[i] = Ended
  <1>1. channel \in Seq(Messages) /\ Len(channel) \in Nat /\ Len(channel) > 0
    BY DEF TypeOK
  <1>2. /\ Head(channel) \in Messages
        /\ Head(channel) = channel[1]
        /\ channel' \in Seq(Messages)
        /\ Len(channel') = Len(channel) - 1
        /\ \A i \in 1 .. Len(channel') : channel'[i] = channel[i + 1]
    BY <1>1, HeadTailProperties
  <1>3. \A i \in 1 .. Len(channel) :
          i = 1 \/ (i - 1 \in 1 .. Len(channel') /\ channel'[i - 1] = channel[i])
    BY <1>1, <1>2
  <1>4. \A i \in 1 .. Len(channel') : i + 1 \in 1 .. Len(channel)
    BY <1>1, <1>2
  <1>5. channel' # <<>> => Last' = Last
    <2> SUFFICES ASSUME channel' # <<>> PROVE Last' = Last
      OBVIOUS
    <2>1. Len(channel') \in 1 .. Len(channel')
      BY <1>2
    <2>2. Len(channel') + 1 = Len(channel)
      BY <1>1, <1>2
    <2> QED
      BY <1>2, <2>1, <2>2 DEF Last
  <1>6. channel' = <<>> => Last = Head(channel)
    <2> SUFFICES ASSUME channel' = <<>> PROVE Last = Head(channel)
      OBVIOUS
    <2>1. Len(channel) = 1
      BY <1>1, <1>2
    <2> QED
      BY <1>2, <2>1 DEF Last
  <1>7. \A list \in UnderWay : \/ list \in UnderWay'
                               \/ /\ Head(channel).type = "sessions"
                                  /\ list = Head(channel).list
    BY <1>2, <1>3 DEF UnderWay
  <1>8. (\E i \in 1 .. Len(channel') : channel'[i] = Ended) =>
          \E i \in 1 .. Len(channel) : channel[i] = Ended
    BY <1>2, <1>4
  <1> QED
    BY <1>2, <1>5, <1>6, <1>7, <1>8

\* A step that leaves the stream and what was seen of it alone keeps StreamInv.
LEMMA StreamIsLeftAlone ==
  ASSUME TypeOK, StreamInv, UNCHANGED <<handler, first, channel, live, shown, seen>>,
         connected' => connected, up' \/ handler = "none"
  PROVE  StreamInv'
  BY DEF StreamInv, NoListIsSkipped, StaleListIsMarked, Listening, UnderWay, Last

\* A stream that nobody writes to and nothing is under way on promises nothing.
LEMMA StreamIsOver ==
  ASSUME channel' = <<>>, handler' = "none", ~connected'
  PROVE  StreamInv'
  <1>1. Len(channel') = 0
    OBVIOUS
  <1> QED
    BY <1>1 DEF StreamInv, NoListIsSkipped, StaleListIsMarked

\* Every step keeps what the end of the queue says.
LEMMA StreamStep == TypeOK /\ TabInv /\ StreamInv /\ [Next]_vars => StreamInv'
  <1> SUFFICES ASSUME TypeOK, TabInv, StreamInv, [Next]_vars PROVE StreamInv'
    OBVIOUS
  <1> USE LiveAssumption
  <1>0. live \in Nat /\ first \in List
    BY DEF TypeOK, List
  <1>1. CASE Publish
    <2>1. CASE ~Listening
      BY <2>1, <1>1 DEF Publish, Listening, StreamInv, NoListIsSkipped, StaleListIsMarked,
         Last, screen
    <2>2. CASE Listening
      <3>1. live + 1 \in List
        BY <1>1 DEF Publish, TypeOK, List
      <3>2. Sent(live + 1) \in Messages /\ Sent(live + 1).type = "sessions"
            /\ Sent(live + 1).list = live + 1 /\ Sent(live + 1) # Ended
        BY <3>1, KindsOfMessages
      <3>3. channel' = Append(channel, Sent(live + 1)) /\ live' = live + 1
        BY <1>1, <2>2 DEF Publish
      <3>4. /\ channel' # <<>>
            /\ Last' = Sent(live + 1)
            /\ live + 1 \in UnderWay'
            /\ \A i \in 1 .. Len(channel') : channel'[i] = Ended => handler = "none"
        BY <3>2, <3>3, Written DEF StreamInv
      <3>5. Listening'
        BY <1>1, <2>2 DEF Publish, Listening
      <3>6. handler = "loaded" => live' \in {first, first + 1}
        BY <1>1 DEF Publish
      <3> QED
        BY <1>1, <3>1, <3>3, <3>4, <3>5, <3>6
           DEF Publish, StreamInv, NoListIsSkipped, StaleListIsMarked
    <2> QED
      BY <2>1, <2>2
  <1>2. CASE Accept
    <2>1. channel' = <<Opened>> /\ handler' = "subscribed" /\ up'
      BY <1>2 DEF Accept
    <2>2. \A i \in 1 .. Len(channel') : channel'[i] # Ended
      BY <2>1, KindsOfMessages
    <2> QED
      BY <2>1, <2>2 DEF StreamInv, NoListIsSkipped, StaleListIsMarked, Listening
  <1>3. CASE LoadCurrent
    <2>1. Listening' /\ handler = "subscribed"
      BY <1>3 DEF LoadCurrent, Listening
    <2> QED
      BY <1>3, <2>1 DEF LoadCurrent, StreamInv, NoListIsSkipped, StaleListIsMarked
  <1>4. CASE WriteFirst
    <2>1. Sent(first) \in Messages /\ Sent(first).type = "sessions"
          /\ Sent(first).list = first /\ Sent(first) # Ended
      BY <1>0, KindsOfMessages
    <2>2. /\ channel' # <<>>
          /\ Last' = Sent(first)
          /\ UnderWay \subseteq UnderWay'
          /\ first \in UnderWay'
          /\ \A i \in 1 .. Len(channel') : channel'[i] # Ended
      BY <1>4, <2>1, Written DEF WriteFirst, StreamInv
    <2>3. handler = "loaded" /\ handler' = "parked" /\ UNCHANGED <<up, live, seen>>
      BY <1>4 DEF WriteFirst
    <2>4. Listening'
      BY <2>3 DEF Listening
    <2> QED
      BY <1>0, <2>2, <2>3, <2>4 DEF StreamInv, NoListIsSkipped, StaleListIsMarked
  <1>5. CASE Stop
    <2>1. handler' = "none" /\ UNCHANGED connected
      BY <1>5 DEF Stop, screen
    <2>2. CASE Listening
      <3>1. Last' = Ended /\ channel' # <<>>
        BY <1>5, <2>2, Written, KindsOfMessages DEF Stop
      <3> QED
        BY <2>1, <3>1 DEF StreamInv, NoListIsSkipped, StaleListIsMarked, Last
    <2>3. CASE ~Listening
      <3>1. channel' = channel
        BY <1>5, <2>3 DEF Stop
      <3> QED
        BY <2>1, <2>3, <3>1 DEF StreamInv, NoListIsSkipped, StaleListIsMarked, Last
    <2> QED
      BY <2>2, <2>3
  <1>6. CASE Start
    <2>1. handler = "none"
      BY <1>6 DEF Start, StreamInv
    <2> QED
      BY <1>6, <2>1 DEF Start, StreamInv, NoListIsSkipped, StaleListIsMarked, Listening,
         Last, stream, screen
  <1>7. CASE SessionEnds \/ SignIn \/ Retry \/ UNCHANGED vars
    <2>1. /\ UNCHANGED <<handler, first, channel, live, shown, seen>>
          /\ UNCHANGED <<up, connected>>
      BY <1>7 DEF SessionEnds, SignIn, Retry, vars, stream, screen
    <2> QED
      BY <2>1, StreamIsLeftAlone DEF StreamInv
  <1>8. CASE Mount
    <2>1. channel = <<>> /\ handler = "none"
      BY <1>8 DEF Mount, TabInv
    <2> QED
      BY <1>8, <2>1, StreamIsOver DEF Mount, stream
  <1>9. CASE Leave
    BY <1>9, StreamIsOver DEF Leave, Unmount
  <1>10. CASE ReceiveOpen
    <2>1. channel # <<>> /\ channel' = Tail(channel) /\ Head(channel) = Opened
          /\ UNCHANGED <<up, handler, first, live, shown, seen>>
      BY <1>10 DEF ReceiveOpen
    <2>2. UnderWay \subseteq UnderWay'
      BY <2>1, Taken, KindsOfMessages
    <2>3. \A list \in List : Opened # Sent(list) /\ Opened # Ended
      BY KindsOfMessages
    <2>4. \A i \in 1 .. Len(channel') : channel'[i] = Ended => handler' = "none"
      BY <2>1, Taken DEF StreamInv
    <2>5. channel' = <<>> => Last = Opened
      BY <2>1, Taken
    <2>6. channel' # <<>> => Last' = Last
      BY <2>1, Taken
    <2>7. Listening' = Listening
      BY <2>1 DEF Listening
    <2>8. 0 \in List
      BY DEF List
    <2>9. channel' = <<>> => Listening /\ handler # "parked"
      BY <2>1, <2>3, <2>5, <2>8 DEF StreamInv
    <2> QED
      BY <2>1, <2>2, <2>4, <2>6, <2>7, <2>9 DEF StreamInv, NoListIsSkipped, StaleListIsMarked, Last
  <1>11. CASE ReceiveSessions
    <2>1. channel # <<>> /\ channel' = Tail(channel) /\ Head(channel).type = "sessions"
          /\ shown' = Head(channel).list /\ seen' = seen \cup {Head(channel).list}
          /\ UNCHANGED <<up, handler, first, live>>
      BY <1>11 DEF ReceiveSessions
    <2>2. Head(channel) \in Messages
      BY <2>1, Taken
    <2>3. Head(channel).list \in List /\ Head(channel) = Sent(Head(channel).list)
          /\ Head(channel) # Ended
      BY <2>1, <2>2, KindsOfMessages
    <2>4. seen \cup UnderWay \subseteq seen' \cup UnderWay'
      BY <2>1, Taken
    <2>5. \A i \in 1 .. Len(channel') : channel'[i] = Ended => handler' = "none"
      BY <2>1, Taken DEF StreamInv
    <2>6. channel' = <<>> => Last = Head(channel)
      BY <2>1, Taken
    <2>7. channel' # <<>> => Last' = Last
      BY <2>1, Taken
    <2>8. Listening' = Listening
      BY <2>1 DEF Listening
    <2>9. channel' = <<>> => Listening
      BY <2>1, <2>3, <2>6 DEF StreamInv
    <2>10. channel' = <<>> /\ handler' = "parked" => live' \in {shown', shown' + 1}
      <3> SUFFICES ASSUME channel' = <<>>, handler = "parked"
                   PROVE  live \in {Head(channel).list, Head(channel).list + 1}
        BY <2>1
      <3>1. PICK list \in List : Last = Sent(list) /\ live \in {list, list + 1}
        BY <2>1 DEF StreamInv
      <3>2. Sent(list).list = Head(channel).list
        BY <2>6, <3>1
      <3> QED
        BY <3>1, <3>2, KindsOfMessages
    <2> QED
      BY <2>1, <2>4, <2>5, <2>7, <2>8, <2>9, <2>10
         DEF StreamInv, NoListIsSkipped, StaleListIsMarked, Last
  <1>12. ASSUME NEW p \in Probes, ReceiveEnd(p) \/ Break(p) PROVE StreamInv'
    <2>1. CASE Break(p)
      BY <2>1, StreamIsOver DEF Break, HandleError
    <2>2. CASE ReceiveEnd(p)
      <3>1. Head(channel) = channel[1] /\ 1 \in 1 .. Len(channel)
        BY <2>2 DEF ReceiveEnd, TypeOK
      <3>2. handler = "none"
        BY <2>2, <3>1 DEF ReceiveEnd, StreamInv
      <3> QED
        BY <2>2, <3>2, StreamIsOver DEF ReceiveEnd, HandleError
    <2> QED
      BY <1>12, <2>1, <2>2
  <1>13. ASSUME NEW p \in Probes, Unreachable(p) \/ Refuse(p) \/ HandshakeFails(p)
         PROVE  StreamInv'
    <2>1. UNCHANGED <<handler, first, channel, live, shown, seen>> /\ up' = up /\ ~connected'
      BY <1>13 DEF Unreachable, Refuse, HandshakeFails, HandleError, stream
    <2> QED
      BY <2>1, StreamIsLeftAlone DEF StreamInv
  <1>14. ASSUME NEW p \in Probes, AnswerProbe(p) \/ ProbeFails(p) \/ ReceiveProbe(p)
                                  \/ LoseProbe(p) \/ BreakProbe(p)
         PROVE  StreamInv'
    <2>1. \/ /\ UNCHANGED <<handler, first, channel, live, shown, seen>>
             /\ up' = up /\ connected' = connected
          \/ channel' = <<>> /\ handler' = "none" /\ ~connected'
      BY <1>14 DEF AnswerProbe, ProbeFails, ReceiveProbe, LoseProbe, BreakProbe, Unmount,
         stream, screen
    <2> QED
      BY <2>1, StreamIsLeftAlone, StreamIsOver DEF StreamInv
  <1> QED
    BY <1>1, <1>2, <1>3, <1>4, <1>5, <1>6, <1>7, <1>8, <1>9, <1>10, <1>11,
       <1>12, <1>13, <1>14 DEF Next

-----------------------------------------------------------------------------

\* Nothing is open yet.
LEMMA InitHolds == Init => TypeOK /\ TabInv /\ ProbeInv /\ StreamInv
  <1> SUFFICES ASSUME Init PROVE TypeOK /\ TabInv /\ ProbeInv /\ StreamInv
    OBVIOUS
  <1> USE LiveAssumption
  <1>1. <<>> \in Seq(Messages) /\ Len(<<>>) = 0
    OBVIOUS
  <1>2. 0 \in List
    BY DEF List
  <1>3. TypeOK
    <2>1. probe \in [Probes -> [stage : ProbeStages, cancelled : BOOLEAN]]
      BY DEF Init, NoProbe, ProbeStages
    <2>2. channel \in Seq(Messages)
      BY <1>1 DEF Init
    <2>3. faults \in 0 .. MaxFaults /\ mounts \in 0 .. MaxMounts
      BY DEF Init
    <2>4. live \in List /\ first \in List /\ shown \in List
      BY <1>2 DEF Init
    <2> QED
      BY <2>1, <2>2, <2>3, <2>4 DEF Init, TypeOK
  <1>4. TabInv
    BY DEF Init, TabInv
  <1>5. ProbeInv
    BY DEF Init, ProbeInv, NoProbe
  <1>6. StreamInv
    BY <1>1 DEF Init, StreamInv, NoListIsSkipped, StaleListIsMarked
  <1> QED
    BY <1>3, <1>4, <1>5, <1>6

\* Every state has the types of TypeOK; nobody sees the screen who is signed out
\* (live.ts, useLiveSessions.ts).
THEOREM TypeCorrect == Spec => []TypeOK
  BY InitHolds, TypeStep, PTL DEF Spec

\* The theorems below share these.
LEMMA BaseHolds == Spec => [](TypeOK /\ TabInv)
  BY InitHolds, TypeStep, TabStep, PTL DEF Spec

\* The invariant of the stream, for the theorems about it.
LEMMA StreamHolds == Spec => []StreamInv
  BY InitHolds, BaseHolds, StreamStep, PTL DEF Spec

\* Between subscribing, reading the first list and writing it, the handler loses
\* no list that a poll publishes (live.ts).
THEOREM NothingIsSkipped == Spec => []NoListIsSkipped
  <1>1. StreamInv => NoListIsSkipped
    BY DEF StreamInv
  <1> QED
    BY <1>1, StreamHolds, PTL

\* A tab that has caught up is one publish behind at most: the first event is the
\* only one that can be overtaken, and by one publish (live.ts, applier.ts).
THEOREM CaughtUpTabLagsOne == Spec => []LagsOnePublish
  <1>1. StreamInv => LagsOnePublish
    BY DEF StreamInv, LagsOnePublish
  <1> QED
    BY <1>1, StreamHolds, PTL

\* The screen never calls a list live whose stream is gone without an end under way
\* (useLiveSessions.ts, routes/live.tsx).
THEOREM LiveMeansStreaming == Spec => []StaleListIsMarked
  <1>1. StreamInv => StaleListIsMarked
    BY DEF StreamInv
  <1> QED
    BY <1>1, StreamHolds, PTL

\* Only a visitor whose session is over is signed out by a probe: those of a hook
\* that was left are cancelled, and nobody signs in with the screen open
\* (useLiveSessions.ts, handleError).
THEOREM SignOutIsDeserved == Spec => NoFalseSignOut
  <1>1. TypeOK /\ ProbeInv /\ [Next]_vars
          => [status = "authenticated" /\ status' = "anonymous" => ~session]_vars
    <2> SUFFICES ASSUME TypeOK, ProbeInv, [Next]_vars,
                        status = "authenticated", status' = "anonymous"
                 PROVE  ~session
      OBVIOUS
    <2>1. PICK p \in Probes : ReceiveProbe(p)
      BY DEF Next, vars, Publish, Accept, LoadCurrent, WriteFirst, Stop, Start, SessionEnds,
         Mount, Leave, SignIn, ReceiveOpen, ReceiveSessions, Retry, ReceiveEnd, Break,
         Unreachable, Refuse, HandshakeFails, AnswerProbe, ProbeFails, LoseProbe, BreakProbe
    <2>2. probe[p].stage = "unauthorized" /\ ~probe[p].cancelled
      BY <2>1 DEF ReceiveProbe
    <2> QED
      BY <2>2 DEF ProbeInv
  <1> QED
    BY <1>1, InitHolds, BaseHolds, TypeStep, ProbeStep, PTL DEF Spec, NoFalseSignOut

=============================================================================
