---------------------- MODULE ResponseCorrelatorProofs ----------------------
(***************************************************************************)
(* Safety of the response correlator for any set of requesters and any     *)
(* number of commands: the invariants of ResponseCorrelator.tla follow     *)
(* from IInv, which every step preserves, and every step of the            *)
(* correlator is a step, or a stutter, of RequestReply.                    *)
(***************************************************************************)
EXTENDS ResponseCorrelator, TLAPS

\* A requester has a command exactly while a request is under way; commands
\* are below the counter, belong to one requester and have not failed.
Bookkeeping ==
    /\ \A r \in Requesters :
         /\ cmd[r] # NULL <=> pc[r] \in {"registered", "writing", "waiting",
                                      "cleanup"}
         /\ cmd[r] < nextCommandId
         /\ cmd[r] \notin failedSends
    /\ \A r, q \in Requesters : cmd[r] = cmd[q] /\ cmd[r] # NULL => r = q
    /\ \A id \in failedSends : id < nextCommandId
    /\ \A r \in woken : pc[r] \in {"waiting", "cleanup"}

\* A response found anywhere between the broker and a future answers the
\* command it is filed under.
Provenance ==
    /\ \A id \in CommandIds :
         response[id] # NULL => response[id] = id /\ id \in answered
    /\ \A id \in wire : id \in answered
    /\ readerCmd # NULL => readerCmd \in answered
    /\ \A id \in inflight \cup answered : id < nextCommandId
    /\ inflight \cap answered = {}
    /\ \A r \in Requesters :
         pc[r] \in {"registered", "writing"} => cmd[r] \notin inflight \cup answered

\* A future is released without a response only when the transport is down,
\* and an untimed request reads NULL only then or when it was woken for no
\* reason.
FailureExcused ==
    /\ reader = "failing" => broken \/ ioClosed
    /\ \A id \in CommandIds :
         latch[id] = 0 /\ response[id] = NULL => Phase = "down"
    /\ \A r \in Requesters \ Timed :
         pc[r] = "cleanup" /\ got[r] = NULL => Phase = "down" \/ r \in woken

IInv ==
    /\ TypeOK
    /\ Bookkeeping
    /\ MapIsExact
    /\ NoUseAfterDelete
    /\ Provenance
    /\ OwnResponse
    /\ FailureExcused
-----------------------------------------------------------------------------
\* Nothing is registered, sent or answered before start.
LEMMA InitEstablishes == Init => IInv
<1> USE MaxCommandIdAssumption DEF Init, CommandIds, NULL
<1> SUFFICES ASSUME Init PROVE IInv
  OBVIOUS
<1>1. FlagsTypeOK
  BY DEF FlagsTypeOK
<1>2. ThreadsTypeOK
  BY DEF ThreadsTypeOK
<1>3. CommandsTypeOK
  BY DEF CommandsTypeOK
<1>4. Bookkeeping
  BY DEF Bookkeeping
<1>5. MapIsExact
  BY DEF MapIsExact
<1>6. NoUseAfterDelete
  BY DEF NoUseAfterDelete
<1>7. Provenance
  BY DEF Provenance
<1>8. OwnResponse
  BY DEF OwnResponse
<1>9. FailureExcused
  BY DEF FailureExcused, Phase
<1> QED
  BY <1>1, <1>2, <1>3, <1>4, <1>5, <1>6, <1>7, <1>8, <1>9 DEF IInv, TypeOK

\* Registering uses an id that nothing refers to yet.
LEMMA RequestPreserves ==
    ASSUME IInv, NEW r \in Requesters, Request(r)
    PROVE  IInv'
<1> USE MaxCommandIdAssumption, TimedAssumption DEF IInv, TypeOK, CommandIds,
      NULL, correlatorVars, callVars, ioVars, netVars, ownerVars,
      Request
<1>1. FlagsTypeOK'
  BY DEF FlagsTypeOK
<1>2. ThreadsTypeOK'
  BY DEF ThreadsTypeOK
<1>3. CommandsTypeOK'
  BY DEF CommandsTypeOK, ThreadsTypeOK, Bookkeeping
<1>4. Bookkeeping'
  BY DEF Bookkeeping, CommandsTypeOK, ThreadsTypeOK
<1>5. MapIsExact'
  <2>1. cmd[r] = NULL /\ nextCommandId # NULL
    <3>1. pc[r] = "idle" /\ (cmd[r] # NULL <=> pc[r] \in {"registered", "writing",
             "waiting", "cleanup"})
      BY DEF Bookkeeping
    <3>2. nextCommandId \in 1..(MaxCommandId + 1)
      BY DEF CommandsTypeOK
    <3> QED
      BY <3>1, <3>2
  <2>2. {cmd'[q] : q \in {q \in Requesters : cmd'[q] # NULL}} =
          {cmd[q] : q \in {q \in Requesters : cmd[q] # NULL}} \cup {nextCommandId}
    BY <2>1 DEF CommandsTypeOK
  <2> QED
    BY <2>2 DEF MapIsExact
<1>6. NoUseAfterDelete'
  BY DEF NoUseAfterDelete, CommandsTypeOK, Bookkeeping, MapIsExact
<1>7. Provenance'
  BY DEF Provenance, CommandsTypeOK, ThreadsTypeOK, Bookkeeping, MapIsExact, NoUseAfterDelete
<1>8. OwnResponse'
  BY DEF OwnResponse, CommandsTypeOK, ThreadsTypeOK, Bookkeeping, Provenance
<1>9. FailureExcused'
  BY DEF FailureExcused, ThreadsTypeOK, CommandsTypeOK, Bookkeeping, Phase
<1> QED
  BY <1>1, <1>2, <1>3, <1>4, <1>5, <1>6, <1>7, <1>8, <1>9

\* Passing the tests of IOTransport::oneway only moves the requester.
LEMMA PassIOChecksPreserves ==
    ASSUME IInv, NEW r \in Requesters, PassIOChecks(r)
    PROVE  IInv'
BY DEF IInv, TypeOK, FlagsTypeOK, ThreadsTypeOK, CommandsTypeOK, Bookkeeping,
       MapIsExact, NoUseAfterDelete, Provenance, OwnResponse, FailureExcused,
       Phase, PassIOChecks, correlatorVars, ioVars, netVars, ownerVars

\* A command is on the wire only after its future is in the map.
LEMMA SendRequestPreserves ==
    ASSUME IInv, NEW r \in Requesters, SendRequest(r)
    PROVE  IInv'
<1> USE MaxCommandIdAssumption, TimedAssumption DEF IInv, TypeOK, CommandIds,
      NULL, correlatorVars, callVars, ioVars, netVars, ownerVars,
      SendRequest, IOAccepts
<1>1. FlagsTypeOK'
  BY DEF FlagsTypeOK
<1>2. ThreadsTypeOK'
  BY DEF ThreadsTypeOK
<1>3. CommandsTypeOK'
  BY DEF CommandsTypeOK, ThreadsTypeOK, Bookkeeping
<1>4. Bookkeeping'
  BY DEF Bookkeeping, CommandsTypeOK, ThreadsTypeOK
<1>5. MapIsExact'
  BY DEF MapIsExact, CommandsTypeOK, Bookkeeping
<1>6. NoUseAfterDelete'
  BY DEF NoUseAfterDelete, CommandsTypeOK, Bookkeeping, MapIsExact
<1>7. Provenance'
  <2>1. cmd[r] \in CommandIds /\ cmd[r] < nextCommandId
    BY DEF CommandsTypeOK, Bookkeeping
  <2>2. \A id \in inflight' \cup answered' : id < nextCommandId'
    BY <2>1 DEF Provenance
  <2>3. inflight' \cap answered' = {}
    BY DEF Provenance
  <2>4. \A q \in Requesters :
           pc'[q] \in {"registered", "writing"} =>
             cmd'[q] \notin inflight' \cup answered'
    BY DEF Provenance, Bookkeeping, ThreadsTypeOK, CommandsTypeOK
  <2> QED
    BY <2>2, <2>3, <2>4 DEF Provenance
<1>8. OwnResponse'
  BY DEF OwnResponse, CommandsTypeOK, ThreadsTypeOK, Bookkeeping, Provenance
<1>9. FailureExcused'
  BY DEF FailureExcused, ThreadsTypeOK, CommandsTypeOK, Bookkeeping, Phase
<1> QED
  BY <1>1, <1>2, <1>3, <1>4, <1>5, <1>6, <1>7, <1>8, <1>9

\* A failed send leaves its live future in the map.
LEMMA SendRequestFailsPreserves ==
    ASSUME IInv, NEW r \in Requesters, SendRequestFails(r)
    PROVE  IInv'
<1> USE MaxCommandIdAssumption, TimedAssumption DEF IInv, TypeOK, CommandIds,
      NULL, correlatorVars, callVars, ioVars, netVars, ownerVars,
      SendRequestFails, IOAccepts
<1>1. FlagsTypeOK'
  BY DEF FlagsTypeOK
<1>2. ThreadsTypeOK'
  BY DEF ThreadsTypeOK
<1>3. CommandsTypeOK'
  BY DEF CommandsTypeOK, ThreadsTypeOK, Bookkeeping
<1>4. Bookkeeping'
  BY DEF Bookkeeping, CommandsTypeOK, ThreadsTypeOK
<1>5. MapIsExact'
  BY DEF MapIsExact, CommandsTypeOK, Bookkeeping
<1>6. NoUseAfterDelete'
  BY DEF NoUseAfterDelete, CommandsTypeOK, Bookkeeping, MapIsExact
<1>7. Provenance'
  BY DEF Provenance, CommandsTypeOK, ThreadsTypeOK, Bookkeeping, MapIsExact, NoUseAfterDelete
<1>8. OwnResponse'
  BY DEF OwnResponse, CommandsTypeOK, ThreadsTypeOK, Bookkeeping, Provenance
<1>9. FailureExcused'
  BY DEF FailureExcused, ThreadsTypeOK, CommandsTypeOK, Bookkeeping, Phase
<1> QED
  BY <1>1, <1>2, <1>3, <1>4, <1>5, <1>6, <1>7, <1>8, <1>9

\* A wakeup for no reason only marks the requester.
LEMMA WakesForNothingPreserves ==
    ASSUME IInv, NEW r \in Requesters, WakesForNothing(r)
    PROVE  IInv'
<1> USE MaxCommandIdAssumption, TimedAssumption DEF IInv, TypeOK, CommandIds,
      NULL, correlatorVars, callVars, ioVars, netVars, ownerVars,
      WakesForNothing
<1>1. FlagsTypeOK'
  BY DEF FlagsTypeOK
<1>2. ThreadsTypeOK'
  BY DEF ThreadsTypeOK
<1>3. CommandsTypeOK'
  BY DEF CommandsTypeOK, ThreadsTypeOK, Bookkeeping
<1>4. Bookkeeping'
  BY DEF Bookkeeping, CommandsTypeOK, ThreadsTypeOK
<1>5. MapIsExact'
  BY DEF MapIsExact, CommandsTypeOK, Bookkeeping
<1>6. NoUseAfterDelete'
  BY DEF NoUseAfterDelete, CommandsTypeOK, Bookkeeping, MapIsExact
<1>7. Provenance'
  BY DEF Provenance, CommandsTypeOK, ThreadsTypeOK, Bookkeeping, MapIsExact, NoUseAfterDelete
<1>8. OwnResponse'
  BY DEF OwnResponse, CommandsTypeOK, ThreadsTypeOK, Bookkeeping, Provenance
<1>9. FailureExcused'
  BY DEF FailureExcused, ThreadsTypeOK, CommandsTypeOK, Bookkeeping, Phase
<1> QED
  BY <1>1, <1>2, <1>3, <1>4, <1>5, <1>6, <1>7, <1>8, <1>9

\* A requester reads its own response, or NULL when that is excused.
LEMMA GetResponsePreserves ==
    ASSUME IInv, NEW r \in Requesters, GetResponse(r)
    PROVE  IInv'
<1> USE MaxCommandIdAssumption, TimedAssumption DEF IInv, TypeOK, CommandIds,
      NULL, correlatorVars, callVars, ioVars, netVars, ownerVars,
      GetResponse, LatchOpen
<1>1. FlagsTypeOK'
  BY DEF FlagsTypeOK
<1>2. ThreadsTypeOK'
  BY DEF ThreadsTypeOK
<1>3. CommandsTypeOK'
  BY DEF CommandsTypeOK, ThreadsTypeOK, Bookkeeping
<1>4. Bookkeeping'
  BY DEF Bookkeeping, CommandsTypeOK, ThreadsTypeOK
<1>5. MapIsExact'
  BY DEF MapIsExact, CommandsTypeOK, Bookkeeping
<1>6. NoUseAfterDelete'
  BY DEF NoUseAfterDelete, CommandsTypeOK, Bookkeeping, MapIsExact
<1>7. Provenance'
  BY DEF Provenance, CommandsTypeOK, ThreadsTypeOK, Bookkeeping, MapIsExact, NoUseAfterDelete
<1>8. OwnResponse'
  BY DEF OwnResponse, CommandsTypeOK, ThreadsTypeOK, Bookkeeping, Provenance
<1>9. FailureExcused'
  BY DEF FailureExcused, ThreadsTypeOK, CommandsTypeOK, Bookkeeping, Phase
<1> QED
  BY <1>1, <1>2, <1>3, <1>4, <1>5, <1>6, <1>7, <1>8, <1>9

\* Erasing and deleting together keep the map free of deleted futures.
LEMMA CleanupPreserves ==
    ASSUME IInv, NEW r \in Requesters, Cleanup(r)
    PROVE  IInv'
<1> USE MaxCommandIdAssumption, TimedAssumption DEF IInv, TypeOK, CommandIds,
      NULL, correlatorVars, callVars, ioVars, netVars, ownerVars,
      Cleanup
<1>1. FlagsTypeOK'
  BY DEF FlagsTypeOK
<1>2. ThreadsTypeOK'
  BY DEF ThreadsTypeOK
<1>3. CommandsTypeOK'
  BY DEF CommandsTypeOK, ThreadsTypeOK, Bookkeeping
<1>4. Bookkeeping'
  BY DEF Bookkeeping, CommandsTypeOK, ThreadsTypeOK
<1>5. MapIsExact'
  BY DEF MapIsExact, CommandsTypeOK, Bookkeeping
<1>6. NoUseAfterDelete'
  BY DEF NoUseAfterDelete, CommandsTypeOK, Bookkeeping, MapIsExact
<1>7. Provenance'
  BY DEF Provenance, CommandsTypeOK, ThreadsTypeOK, Bookkeeping, MapIsExact, NoUseAfterDelete
<1>8. OwnResponse'
  BY DEF OwnResponse, CommandsTypeOK, ThreadsTypeOK, Bookkeeping, Provenance
<1>9. FailureExcused'
  BY DEF FailureExcused, ThreadsTypeOK, CommandsTypeOK, Bookkeeping, Phase
<1> QED
  BY <1>1, <1>2, <1>3, <1>4, <1>5, <1>6, <1>7, <1>8, <1>9

\* A oneway command only uses up an id.
LEMMA OnewayPreserves ==
    ASSUME IInv, NEW r \in Requesters, Oneway(r)
    PROVE  IInv'
<1> USE MaxCommandIdAssumption, TimedAssumption DEF IInv, TypeOK, CommandIds,
      NULL, correlatorVars, callVars, ioVars, netVars, ownerVars,
      Oneway
<1>1. FlagsTypeOK'
  BY DEF FlagsTypeOK
<1>2. ThreadsTypeOK'
  BY DEF ThreadsTypeOK
<1>3. CommandsTypeOK'
  BY DEF CommandsTypeOK, ThreadsTypeOK, Bookkeeping
<1>4. Bookkeeping'
  BY DEF Bookkeeping, CommandsTypeOK, ThreadsTypeOK
<1>5. MapIsExact'
  BY DEF MapIsExact, CommandsTypeOK, Bookkeeping
<1>6. NoUseAfterDelete'
  BY DEF NoUseAfterDelete, CommandsTypeOK, Bookkeeping, MapIsExact
<1>7. Provenance'
  BY DEF Provenance, CommandsTypeOK, ThreadsTypeOK, Bookkeeping, MapIsExact, NoUseAfterDelete
<1>8. OwnResponse'
  BY DEF OwnResponse, CommandsTypeOK, ThreadsTypeOK, Bookkeeping, Provenance
<1>9. FailureExcused'
  BY DEF FailureExcused, ThreadsTypeOK, CommandsTypeOK, Bookkeeping, Phase
<1> QED
  BY <1>1, <1>2, <1>3, <1>4, <1>5, <1>6, <1>7, <1>8, <1>9

\* A oneway command leaves no trace.
LEMMA SendOnewayPreserves ==
    ASSUME IInv, NEW r \in Requesters, SendOneway(r)
    PROVE  IInv'
<1> USE MaxCommandIdAssumption, TimedAssumption DEF IInv, TypeOK, CommandIds,
      NULL, correlatorVars, callVars, ioVars, netVars, ownerVars,
      SendOneway
<1>1. FlagsTypeOK'
  BY DEF FlagsTypeOK
<1>2. ThreadsTypeOK'
  BY DEF ThreadsTypeOK
<1>3. CommandsTypeOK'
  BY DEF CommandsTypeOK, ThreadsTypeOK, Bookkeeping
<1>4. Bookkeeping'
  BY DEF Bookkeeping, CommandsTypeOK, ThreadsTypeOK
<1>5. MapIsExact'
  BY DEF MapIsExact, CommandsTypeOK, Bookkeeping
<1>6. NoUseAfterDelete'
  BY DEF NoUseAfterDelete, CommandsTypeOK, Bookkeeping, MapIsExact
<1>7. Provenance'
  BY DEF Provenance, CommandsTypeOK, ThreadsTypeOK, Bookkeeping, MapIsExact, NoUseAfterDelete
<1>8. OwnResponse'
  BY DEF OwnResponse, CommandsTypeOK, ThreadsTypeOK, Bookkeeping, Provenance
<1>9. FailureExcused'
  BY DEF FailureExcused, ThreadsTypeOK, CommandsTypeOK, Bookkeeping, Phase
<1> QED
  BY <1>1, <1>2, <1>3, <1>4, <1>5, <1>6, <1>7, <1>8, <1>9

\* The broker answers a command once.
LEMMA BrokerAnswersPreserves ==
    ASSUME IInv, NEW id \in CommandIds, BrokerAnswers(id)
    PROVE  IInv'
<1> USE MaxCommandIdAssumption, TimedAssumption DEF IInv, TypeOK, CommandIds,
      NULL, correlatorVars, callVars, ioVars, netVars, ownerVars,
      BrokerAnswers
<1>1. FlagsTypeOK'
  BY DEF FlagsTypeOK
<1>2. ThreadsTypeOK'
  BY DEF ThreadsTypeOK
<1>3. CommandsTypeOK'
  BY DEF CommandsTypeOK, ThreadsTypeOK, Bookkeeping
<1>4. Bookkeeping'
  BY DEF Bookkeeping, CommandsTypeOK, ThreadsTypeOK
<1>5. MapIsExact'
  BY DEF MapIsExact, CommandsTypeOK, Bookkeeping
<1>6. NoUseAfterDelete'
  BY DEF NoUseAfterDelete, CommandsTypeOK, Bookkeeping, MapIsExact
<1>7. Provenance'
  BY DEF Provenance, CommandsTypeOK, ThreadsTypeOK, Bookkeeping, MapIsExact, NoUseAfterDelete
<1>8. OwnResponse'
  BY DEF OwnResponse, CommandsTypeOK, ThreadsTypeOK, Bookkeeping, Provenance
<1>9. FailureExcused'
  BY DEF FailureExcused, ThreadsTypeOK, CommandsTypeOK, Bookkeeping, Phase
<1> QED
  BY <1>1, <1>2, <1>3, <1>4, <1>5, <1>6, <1>7, <1>8, <1>9

\* A lost connection only loses what is in flight.
LEMMA ConnectionBreaksPreserves ==
    ASSUME IInv, ConnectionBreaks
    PROVE  IInv'
<1> USE MaxCommandIdAssumption, TimedAssumption DEF IInv, TypeOK, CommandIds,
      NULL, correlatorVars, callVars, ioVars, netVars, ownerVars,
      ConnectionBreaks
<1>1. FlagsTypeOK'
  BY DEF FlagsTypeOK
<1>2. ThreadsTypeOK'
  BY DEF ThreadsTypeOK
<1>3. CommandsTypeOK'
  BY DEF CommandsTypeOK, ThreadsTypeOK, Bookkeeping
<1>4. Bookkeeping'
  BY DEF Bookkeeping, CommandsTypeOK, ThreadsTypeOK
<1>5. MapIsExact'
  BY DEF MapIsExact, CommandsTypeOK, Bookkeeping
<1>6. NoUseAfterDelete'
  BY DEF NoUseAfterDelete, CommandsTypeOK, Bookkeeping, MapIsExact
<1>7. Provenance'
  BY DEF Provenance, CommandsTypeOK, ThreadsTypeOK, Bookkeeping, MapIsExact, NoUseAfterDelete
<1>8. OwnResponse'
  BY DEF OwnResponse, CommandsTypeOK, ThreadsTypeOK, Bookkeeping, Provenance
<1>9. FailureExcused'
  BY DEF FailureExcused, ThreadsTypeOK, CommandsTypeOK, Bookkeeping, Phase
<1> QED
  BY <1>1, <1>2, <1>3, <1>4, <1>5, <1>6, <1>7, <1>8, <1>9

\* The reader takes a response from the wire.
LEMMA ReaderReadsPreserves ==
    ASSUME IInv, NEW id \in CommandIds, ReaderReads(id)
    PROVE  IInv'
<1> USE MaxCommandIdAssumption, TimedAssumption DEF IInv, TypeOK, CommandIds,
      NULL, correlatorVars, callVars, ioVars, netVars, ownerVars,
      ReaderReads
<1>1. FlagsTypeOK'
  BY DEF FlagsTypeOK
<1>2. ThreadsTypeOK'
  BY DEF ThreadsTypeOK
<1>3. CommandsTypeOK'
  BY DEF CommandsTypeOK, ThreadsTypeOK, Bookkeeping
<1>4. Bookkeeping'
  BY DEF Bookkeeping, CommandsTypeOK, ThreadsTypeOK
<1>5. MapIsExact'
  BY DEF MapIsExact, CommandsTypeOK, Bookkeeping
<1>6. NoUseAfterDelete'
  BY DEF NoUseAfterDelete, CommandsTypeOK, Bookkeeping, MapIsExact
<1>7. Provenance'
  BY DEF Provenance, CommandsTypeOK, ThreadsTypeOK, Bookkeeping, MapIsExact, NoUseAfterDelete
<1>8. OwnResponse'
  BY DEF OwnResponse, CommandsTypeOK, ThreadsTypeOK, Bookkeeping, Provenance
<1>9. FailureExcused'
  BY DEF FailureExcused, ThreadsTypeOK, CommandsTypeOK, Bookkeeping, Phase
<1> QED
  BY <1>1, <1>2, <1>3, <1>4, <1>5, <1>6, <1>7, <1>8, <1>9

\* A response is stored in the future of its own command.
LEMMA OnCommandPreserves ==
    ASSUME IInv, OnCommand
    PROVE  IInv'
<1> USE MaxCommandIdAssumption, TimedAssumption DEF IInv, TypeOK, CommandIds,
      NULL, correlatorVars, callVars, ioVars, netVars, ownerVars,
      OnCommand, SetResponse
<1>1. FlagsTypeOK'
  BY DEF FlagsTypeOK
<1>2. ThreadsTypeOK'
  BY DEF ThreadsTypeOK
<1>3. CommandsTypeOK'
  BY DEF CommandsTypeOK, ThreadsTypeOK, Bookkeeping
<1>4. Bookkeeping'
  BY DEF Bookkeeping, CommandsTypeOK, ThreadsTypeOK
<1>5. MapIsExact'
  BY DEF MapIsExact, CommandsTypeOK, Bookkeeping
<1>6. NoUseAfterDelete'
  BY DEF NoUseAfterDelete, CommandsTypeOK, Bookkeeping, MapIsExact
<1>7. Provenance'
  BY DEF Provenance, CommandsTypeOK, ThreadsTypeOK, Bookkeeping, MapIsExact, NoUseAfterDelete
<1>8. OwnResponse'
  BY DEF OwnResponse, CommandsTypeOK, ThreadsTypeOK, Bookkeeping, Provenance
<1>9. FailureExcused'
  BY DEF FailureExcused, ThreadsTypeOK, CommandsTypeOK, Bookkeeping, Phase
<1> QED
  BY <1>1, <1>2, <1>3, <1>4, <1>5, <1>6, <1>7, <1>8, <1>9

\* The exception handler runs when the transport is down.
LEMMA OnTransportExceptionPreserves ==
    ASSUME IInv, OnTransportException
    PROVE  IInv'
<1> USE MaxCommandIdAssumption, TimedAssumption DEF IInv, TypeOK, CommandIds,
      NULL, correlatorVars, callVars, ioVars, netVars, ownerVars,
      OnTransportException, WakeAll, SetResponse
<1>1. FlagsTypeOK'
  BY DEF FlagsTypeOK
<1>2. ThreadsTypeOK'
  BY DEF ThreadsTypeOK
<1>3. CommandsTypeOK'
  BY DEF CommandsTypeOK, ThreadsTypeOK, Bookkeeping
<1>4. Bookkeeping'
  BY DEF Bookkeeping, CommandsTypeOK, ThreadsTypeOK
<1>5. MapIsExact'
  BY DEF MapIsExact, CommandsTypeOK, Bookkeeping
<1>6. NoUseAfterDelete'
  BY DEF NoUseAfterDelete, CommandsTypeOK, Bookkeeping, MapIsExact
<1>7. Provenance'
  BY DEF Provenance, CommandsTypeOK, ThreadsTypeOK, Bookkeeping, MapIsExact, NoUseAfterDelete
<1>8. OwnResponse'
  BY DEF OwnResponse, CommandsTypeOK, ThreadsTypeOK, Bookkeeping, Provenance
<1>9. FailureExcused'
  BY DEF FailureExcused, ThreadsTypeOK, CommandsTypeOK, Bookkeeping, Phase
<1> QED
  BY <1>1, <1>2, <1>3, <1>4, <1>5, <1>6, <1>7, <1>8, <1>9

\* close() runs with the transport going down.
LEMMA CloseSweepPreserves ==
    ASSUME IInv, CloseSweep
    PROVE  IInv'
<1> USE MaxCommandIdAssumption, TimedAssumption DEF IInv, TypeOK, CommandIds,
      NULL, correlatorVars, callVars, ioVars, netVars, ownerVars,
      CloseSweep, WakeAll, SetResponse
<1>1. FlagsTypeOK'
  BY DEF FlagsTypeOK
<1>2. ThreadsTypeOK'
  BY DEF ThreadsTypeOK
<1>3. CommandsTypeOK'
  BY DEF CommandsTypeOK, ThreadsTypeOK, Bookkeeping
<1>4. Bookkeeping'
  BY DEF Bookkeeping, CommandsTypeOK, ThreadsTypeOK
<1>5. MapIsExact'
  BY DEF MapIsExact, CommandsTypeOK, Bookkeeping
<1>6. NoUseAfterDelete'
  BY DEF NoUseAfterDelete, CommandsTypeOK, Bookkeeping, MapIsExact
<1>7. Provenance'
  BY DEF Provenance, CommandsTypeOK, ThreadsTypeOK, Bookkeeping, MapIsExact, NoUseAfterDelete
<1>8. OwnResponse'
  BY DEF OwnResponse, CommandsTypeOK, ThreadsTypeOK, Bookkeeping, Provenance
<1>9. FailureExcused'
  BY DEF FailureExcused, ThreadsTypeOK, CommandsTypeOK, Bookkeeping, Phase
<1> QED
  BY <1>1, <1>2, <1>3, <1>4, <1>5, <1>6, <1>7, <1>8, <1>9

\* The remaining steps move a thread or set a flag.
LEMMA PositionsPreserve ==
    ASSUME IInv, ReaderLoops \/ ReaderFails \/ StartNext \/ StartOpens
                 \/ CloseNext \/ CloseJoins \/ CloseMarks
    PROVE  IInv'
<1> USE DEF correlatorVars, callVars, ioVars, netVars, ownerVars,
      ReaderLoops, ReaderFails, StartNext, StartOpens, CloseNext, CloseJoins,
      CloseMarks
<1>1. UNCHANGED <<nextCommandId, requestMap, live, response, latch, callVars,
                  readerCmd, netVars, closeCalled>>
  OBVIOUS
<1>2. FlagsTypeOK' /\ ThreadsTypeOK'
  BY DEF IInv, TypeOK, FlagsTypeOK, ThreadsTypeOK
<1>3. CommandsTypeOK'
  BY <1>1 DEF IInv, TypeOK, CommandsTypeOK
<1>4. Bookkeeping' /\ MapIsExact' /\ NoUseAfterDelete'
  BY <1>1 DEF IInv, Bookkeeping, MapIsExact, NoUseAfterDelete
<1>5. Provenance' /\ OwnResponse'
  BY <1>1 DEF IInv, Provenance, OwnResponse
<1>6. ioClosed => ioClosed'
  BY DEF IInv, TypeOK, FlagsTypeOK
<1>7. Phase = "down" => Phase' = "down"
  BY <1>1, <1>6 DEF Phase
<1>8. reader' = "failing" => broken' \/ ioClosed'
  BY <1>1, <1>6 DEF IInv, FailureExcused
<1>9. FailureExcused'
  BY <1>1, <1>7, <1>8 DEF IInv, FailureExcused
<1> QED
  BY <1>2, <1>3, <1>4, <1>5, <1>9 DEF IInv, TypeOK

\* IInv is inductive.
THEOREM Inductive == IInv /\ [Next]_vars => IInv'
<1> SUFFICES ASSUME IInv, [Next]_vars
             PROVE  IInv'
  OBVIOUS
<1>1. CASE \E r \in Requesters : RequesterStep(r)
  <2>1. PICK r \in Requesters : RequesterStep(r)
    BY <1>1
  <2> QED
    BY <2>1, RequestPreserves, PassIOChecksPreserves, SendRequestPreserves,
       SendRequestFailsPreserves,
       WakesForNothingPreserves, GetResponsePreserves, CleanupPreserves,
       OnewayPreserves, SendOnewayPreserves DEF RequesterStep
<1>2. CASE ReaderStep
  BY <1>2, ReaderReadsPreserves, OnCommandPreserves,
     OnTransportExceptionPreserves, PositionsPreserve DEF ReaderStep
<1>3. CASE OwnerStep
  BY <1>3, CloseSweepPreserves, PositionsPreserve DEF OwnerStep
<1>4. CASE NetworkStep
  BY <1>4, BrokerAnswersPreserves, ConnectionBreaksPreserves DEF NetworkStep
<1>5. CASE UNCHANGED vars
  BY <1>5 DEF IInv, TypeOK, FlagsTypeOK, ThreadsTypeOK, CommandsTypeOK,
     Bookkeeping, MapIsExact, NoUseAfterDelete, Provenance, OwnResponse,
     FailureExcused, Phase, vars, correlatorVars, callVars, ioVars, netVars, ownerVars
<1> QED
  BY <1>1, <1>2, <1>3, <1>4, <1>5 DEF Next

\* IInv holds in every reachable state.
THEOREM InvariantHolds == Spec => []IInv
BY InitEstablishes, Inductive, PTL DEF Spec

\* Types: in particular no countDown ever takes a latch below zero.
THEOREM TypeCorrect == Spec => []TypeOK
BY InvariantHolds, PTL DEF IInv

\* The request map holds the requests under way and the leaked ones, no more
\* and no less (request's cleanup, 96-108 and 154-166).
THEOREM MapStaysExact == Spec => []MapIsExact
BY InvariantHolds, PTL DEF IInv

\* No thread ever touches a future that has been deleted.
THEOREM MapIsSafe == Spec => []NoUseAfterDelete
BY InvariantHolds, PTL DEF IInv

\* Both together: the shared book-keeping of the futures is right.
THEOREM FuturesStayKept == Spec => []FuturesAreKept
BY InvariantHolds, PTL DEF IInv, FuturesAreKept

\* No requester ever gets the response to another command.
THEOREM ResponsesMatch == Spec => []OwnResponse
BY InvariantHolds, PTL DEF IInv

-----------------------------------------------------------------------------
(* The correlator implements RequestReply *)

\* The correlator starts in a state RequestReply may start in.
LEMMA InitRefines == Init => Promise!Init
<1> SUFFICES ASSUME Init PROVE Promise!Init
  OBVIOUS
<1>1. 1..(nextCommandId - 1) = {}
  BY DEF Init
<1>2. Phase = "new"
  BY DEF Init, Phase
<1> QED
  BY <1>1, <1>2 DEF Init, NULL, Promise!Init

\* What the requesters do: Call, Return, Fail, Consume or nothing.
LEMMA RequesterRefines ==
    ASSUME IInv, NEW r \in Requesters, RequesterStep(r)
    PROVE  Promise!Next \/ UNCHANGED Promise!vars
<1> USE MaxCommandIdAssumption, TimedAssumption
    DEF IInv, TypeOK, CommandIds, NULL, Promise!CommandIds, correlatorVars,
        callVars, ioVars, netVars, ownerVars
<1> SUFFICES ASSUME ~(UNCHANGED Promise!vars)
             PROVE  Promise!Next
  OBVIOUS
<1>1. CASE Request(r)
  <2>1. /\ nextCommandId \in CommandIds
        /\ 1..(nextCommandId' - 1) = 1..(nextCommandId - 1) \cup {nextCommandId}
        /\ nextCommandId \notin 1..(nextCommandId - 1)
    BY <1>1 DEF Request, CommandsTypeOK
  <2>2. Promise!Call(r)
    BY <1>1, <2>1 DEF Request, Promise!Call, Bookkeeping, ThreadsTypeOK,
       CommandsTypeOK, Phase
  <2> QED
    BY <2>2 DEF Promise!Next
<1>2. CASE PassIOChecks(r) \/ SendRequest(r)
  BY <1>2 DEF PassIOChecks, SendRequest, Promise!vars, Phase
<1>3. CASE SendRequestFails(r)
  <2>1. Promise!Fail(r)
    BY <1>3 DEF SendRequestFails, IOAccepts, Promise!Fail, Bookkeeping, ThreadsTypeOK,
       CommandsTypeOK, Phase
  <2> QED
    BY <2>1 DEF Promise!Next
<1>4. CASE GetResponse(r)
  BY <1>4 DEF GetResponse, Promise!vars, Phase
<1>5. CASE Cleanup(r)
  <2>1. CASE got[r] = NULL
    <3>1. Promise!Fail(r)
      BY <1>5, <2>1 DEF Cleanup, Promise!Fail, Bookkeeping, FailureExcused,
         Phase
    <3> QED
      BY <3>1 DEF Promise!Next
  <2>2. CASE got[r] # NULL
    <3>1. Promise!Return(r)
      BY <1>5, <2>2 DEF Cleanup, Promise!Return, OwnResponse, Phase
    <3> QED
      BY <3>1 DEF Promise!Next
  <2> QED
    BY <2>1, <2>2
<1>6. CASE Oneway(r)
  <2>1. /\ nextCommandId \in CommandIds
        /\ 1..(nextCommandId' - 1) = 1..(nextCommandId - 1) \cup {nextCommandId}
        /\ nextCommandId \notin 1..(nextCommandId - 1)
    BY <1>6 DEF Oneway, CommandsTypeOK
  <2>2. Promise!Consume
    BY <1>6, <2>1 DEF Oneway, Promise!Consume, Phase
  <2> QED
    BY <2>2 DEF Promise!Next
<1>7. CASE SendOneway(r)
  BY <1>7 DEF SendOneway, Promise!vars, Phase
<1>8. CASE WakesForNothing(r)
  <2>1. Promise!Disturb(r)
    BY <1>8 DEF WakesForNothing, Promise!Disturb, Bookkeeping, Phase
  <2> QED
    BY <2>1 DEF Promise!Next
<1> QED
  BY <1>1, <1>2, <1>3, <1>4, <1>5, <1>6, <1>7, <1>8 DEF RequesterStep

\* The other threads and the connection only answer or change the phase.
LEMMA OthersRefine ==
    ASSUME IInv, ReaderStep \/ OwnerStep \/ NetworkStep
    PROVE  Promise!Next \/ UNCHANGED Promise!vars
<1> USE DEF IInv, TypeOK, CommandIds, NULL, Promise!CommandIds,
        correlatorVars, callVars, ioVars, netVars, ownerVars
<1>1. CASE \E id \in CommandIds : BrokerAnswers(id)
  <2>1. PICK id \in CommandIds : BrokerAnswers(id)
    BY <1>1
  <2>2. id \in 1..(nextCommandId - 1) \ answered
    BY <2>1 DEF BrokerAnswers, Provenance, CommandsTypeOK
  <2>3. Promise!Answer
    BY <2>1, <2>2 DEF BrokerAnswers, Promise!Answer, Phase
  <2> QED
    BY <2>3 DEF Promise!Next
<1>2. CASE ConnectionBreaks \/ ReaderStep \/ OwnerStep
  <2>1. UNCHANGED <<cmd, nextCommandId, answered, outcome, woken>>
    BY <1>2 DEF ConnectionBreaks, ReaderStep, ReaderLoops, ReaderReads,
       ReaderFails, OnCommand, OnTransportException, OwnerStep, StartNext,
       StartOpens, CloseSweep, CloseNext, CloseJoins, CloseMarks
  <2>2. \/ Phase = "new" /\ Phase' \in {"new", "up", "down"}
        \/ Phase = "up" /\ Phase' \in {"up", "down"}
        \/ Phase = "down" /\ Phase' = "down"
    <3>1. (broken \/ ioClosed \/ closeCalled) =>
             (broken' \/ ioClosed' \/ closeCalled')
      BY <1>2 DEF ConnectionBreaks, ReaderStep, ReaderLoops, ReaderReads,
         ReaderFails, OnCommand, OnTransportException, OwnerStep, StartNext,
         StartOpens, CloseSweep, CloseNext, CloseJoins, CloseMarks
    <3>2. reader # "unstarted" => reader' # "unstarted"
      BY <1>2 DEF ConnectionBreaks, ReaderStep, ReaderLoops, ReaderReads,
         ReaderFails, OnCommand, OnTransportException, OwnerStep, StartNext,
         StartOpens, CloseSweep, CloseNext, CloseJoins, CloseMarks
    <3> QED
      BY <3>1, <3>2 DEF Phase
  <2> QED
    BY <2>1, <2>2 DEF Promise!Next, Promise!ChangePhase, Promise!vars
<1> QED
  BY <1>1, <1>2 DEF NetworkStep

\* The correlator implements the promise of RequestReply for every set of
\* requesters and every number of commands.
THEOREM CorrelatorRefines == Spec => ImplementsRequestReply
<1>1. IInv /\ [Next]_vars => [Promise!Next]_(Promise!vars)
  <2> SUFFICES ASSUME IInv, [Next]_vars
               PROVE  Promise!Next \/ UNCHANGED Promise!vars
    OBVIOUS
  <2>1. CASE UNCHANGED vars
    BY <2>1 DEF vars, correlatorVars, callVars, ioVars, netVars, ownerVars,
       Promise!vars, Phase
  <2>2. CASE Next
    BY <2>2, RequesterRefines, OthersRefine DEF Next
  <2> QED
    BY <2>1, <2>2
<1> QED
  BY <1>1, InitRefines, InvariantHolds, PTL
     DEF Spec, Promise!Spec, ImplementsRequestReply
=============================================================================
