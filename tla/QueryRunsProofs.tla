-------------------------- MODULE QueryRunsProofs --------------------------
(***************************************************************************)
(* Proofs about QueryRuns: its types, and the properties that hold however *)
(* many runs, readers, savers and signers there are, and whether or not    *)
(* runs overlap.                                                           *)
(***************************************************************************)
EXTENDS QueryRuns, TLAPS

USE FirstAssumption, OperatorAssumption, OverlapAssumption

(* The parts of TypeOK, by who changes them.                               *)
CallType == call \in [Run -> Call]
Stamps == \A r \in Run : call[r].gen <= generation /\ call[r].seq <= seq
SlotType == slot \in Result /\ slot.gen <= generation
DiskType == file \in [Tenant -> Nat] /\ memory \in Snapshot /\ newest \in [Tenant -> Nat]
FlowType ==
    /\ tenant \in Tenant /\ auth \in Source /\ epoch \in Nat
    /\ saving \in [Saver -> SavePlaces] /\ aim \in [Saver -> Tenant]
    /\ signing \in [Signer -> SignPlaces]
ScreenType ==
    /\ generation \in Nat /\ seq \in Nat /\ painted \in Nat
    /\ queued \in BOOLEAN /\ overlapped \in BOOLEAN /\ stranded \in BOOLEAN
ReaderType == reader \in [Reader -> Nat]

LEMMA TypeParts ==
    TypeOK <=> /\ CallType /\ Stamps /\ SlotType /\ DiskType
               /\ FlowType /\ ScreenType /\ ReaderType
  BY DEF TypeOK, CallType, Stamps, SlotType, DiskType, FlowType, ScreenType, ReaderType

LEMMA TypePartsNext ==
    TypeOK' <=> /\ CallType' /\ Stamps' /\ SlotType' /\ DiskType'
                /\ FlowType' /\ ScreenType' /\ ReaderType'
  BY DEF TypeOK, CallType, Stamps, SlotType, DiskType, FlowType, ScreenType, ReaderType

(* A call replaced by one whose stamps have been issued.                   *)
LEMMA CallReplaced ==
    ASSUME TypeOK, NEW r \in Run, NEW e \in Call,
           call' = [call EXCEPT ![r] = e],
           generation' \in Nat, seq' \in Nat, generation <= generation', seq <= seq',
           e.gen <= generation', e.seq <= seq'
    PROVE  CallType' /\ Stamps'
  <1> USE DEF TypeOK
  <1>1. CallType'
    BY DEF CallType
  <1>2. ASSUME NEW o \in Run PROVE call'[o].gen <= generation' /\ call'[o].seq <= seq'
    <2>1. CASE o = r
      BY <2>1
    <2>2. CASE o # r
      <3>1. call'[o] = call[o]
        BY <2>2
      <3>2. call[o].gen \in Nat /\ call[o].seq \in Nat
        BY DEF Call
      <3> QED BY <3>1, <3>2
    <2> QED BY <2>1, <2>2
  <1> QED BY <1>1, <1>2 DEF Stamps

(* Stamps stay issued while the counters only grow.                        *)
LEMMA CallsKept ==
    ASSUME TypeOK, UNCHANGED <<call, generation>>, seq' \in Nat, seq <= seq'
    PROVE  CallType' /\ Stamps'
  <1>1. \A o \in Run : call[o].gen \in Nat /\ call[o].seq \in Nat
    BY DEF TypeOK, Call
  <1> QED BY <1>1 DEF CallType, Stamps, TypeOK

LEMMA NoCallIsCall == NoCall \in Call /\ NoCall.gen = 0 /\ NoCall.seq = 0
  BY DEF NoCall, Call, Places

LEMMA MidSignIsBoolean == MidSign \in BOOLEAN
  BY DEF MidSign

LEMMA StampedIsCall ==
    ASSUME NEW n \in Nat
    PROVE  /\ [NoCall EXCEPT !.at = "invoked", !.seq = n] \in Call
           /\ [NoCall EXCEPT !.at = "invoked", !.seq = n].gen = 0
           /\ [NoCall EXCEPT !.at = "invoked", !.seq = n].seq = n
  BY DEF NoCall, Call, Places

LEMMA StartedIsCall ==
    ASSUME TypeOK
    PROVE  Started \in Call /\ Started.gen = 0 /\ Started.seq = seq + 1
  <1>1. seq + 1 \in Nat
    BY DEF TypeOK
  <1>2. \A n \in Nat : LET e == [NoCall EXCEPT !.at = "invoked", !.seq = n]
                        IN  e \in Call /\ e.gen = 0 /\ e.seq = n
    BY StampedIsCall
  <1> QED BY <1>1, <1>2, Zenon DEF Started

LEMMA AnswersKeepsType ==
    ASSUME TypeOK, NEW r \in Run, NEW ok \in BOOLEAN, Answers(r, ok), UNCHANGED <<generation, seq>>
    PROVE  CallType' /\ Stamps'
  <1> DEFINE e == [NoCall EXCEPT !.at = "answered", !.seq = call[r].seq,
                                 !.gen = call[r].gen, !.shown = ok]
  <1>1. call[r] \in Call /\ call[r].gen <= generation /\ call[r].seq <= seq
        /\ generation \in Nat /\ seq \in Nat
    BY DEF TypeOK
  <1>2. e \in Call /\ e.gen = call[r].gen /\ e.seq = call[r].seq
    BY <1>1 DEF NoCall, Call, Places
  <1>3. call' = [call EXCEPT ![r] = e]
    BY DEF Answers
  <1>4. generation' \in Nat /\ seq' \in Nat /\ generation <= generation' /\ seq <= seq'
        /\ e.gen <= generation' /\ e.seq <= seq'
    BY <1>1, <1>2
  <1> HIDE DEF e
  <1> QED BY <1>2, <1>3, <1>4, CallReplaced

LEMMA RunsQueuedKeepsType ==
    ASSUME TypeOK, NEW r \in Run, RunsQueued(r), UNCHANGED generation
    PROVE  CallType' /\ Stamps' /\ seq' \in Nat /\ queued' \in BOOLEAN
  <1>1. generation \in Nat /\ seq \in Nat /\ queued \in BOOLEAN
    BY DEF TypeOK
  <1>2. CASE call' = [call EXCEPT ![r] = Started] /\ seq' = seq + 1 /\ queued' = FALSE
    <2>1. Started \in Call /\ Started.gen <= generation' /\ Started.seq <= seq'
          /\ generation' \in Nat /\ seq' \in Nat
          /\ generation <= generation' /\ seq <= seq'
      BY <1>1, <1>2, StartedIsCall
    <2>2. CallType' /\ Stamps'
      BY <1>2, <2>1, CallReplaced
    <2> QED BY <1>2, <2>1, <2>2
  <1>3. CASE call' = [call EXCEPT ![r] = NoCall] /\ UNCHANGED seq
             /\ queued' = (queued /\ ~Last(r))
    <2>3. NoCall.gen <= generation' /\ NoCall.seq <= seq'
          /\ generation' \in Nat /\ seq' \in Nat
          /\ generation <= generation' /\ seq <= seq'
      BY <1>1, <1>3, NoCallIsCall
    <2>1. CallType' /\ Stamps'
      BY <1>3, <2>3, NoCallIsCall, CallReplaced
    <2>2. queued' \in BOOLEAN
      BY <1>1, <1>3
    <2> QED BY <2>1, <2>2, <1>1, <1>3
  <1> QED BY <1>2, <1>3 DEF RunsQueued

LEMMA BegunIsCall ==
    ASSUME NEW c \in Call, NEW n \in Nat, NEW t \in Tenant, NEW k \in Nat, NEW b \in BOOLEAN
    PROVE  [c EXCEPT !.at = "fetching", !.gen = n, !.tenant = t, !.epoch = k, !.mid = b] \in Call
  BY DEF Call, Places

LEMMA BaselineType ==
    ASSUME TypeOK, NEW t \in Tenant
    PROVE  Baseline(t) \in Nat
  BY DEF TypeOK, Baseline, Snapshot

(* Every step of a run keeps the types.                                    *)
LEMMA RunKeepsType ==
    ASSUME TypeOK, NEW r \in Run, RunStep(r)
    PROVE  TypeOK'
  <1>1. ASSUME Starts(r) PROVE TypeOK'
    <2> DEFINE e == Started
    <2>0. call[r] \in Call /\ call[r].gen <= generation /\ call[r].seq <= seq
          /\ call[r].gen \in Nat /\ call[r].seq \in Nat
          /\ generation \in Nat /\ seq \in Nat
      BY DEF TypeOK, Call
    <2>2. e \in Call
      BY <2>0, StartedIsCall DEF TypeOK, Call, Places
    <2>3. e.gen <= generation' /\ e.seq <= seq' /\ generation <= generation' /\ seq <= seq'
          /\ generation' \in Nat /\ seq' \in Nat
      BY <1>1, <2>0, StartedIsCall DEF Starts, screenVars, Call
    <2>4. call' = [call EXCEPT ![r] = e]
      BY <1>1 DEF Starts
    <2>1. CallType' /\ Stamps'
      <3> HIDE DEF e
      <3> QED BY <2>2, <2>3, <2>4, CallReplaced
    <2>5. SlotType' /\ DiskType' /\ FlowType' /\ ReaderType'
      BY <1>1 DEF TypeOK, SlotType, Result, DiskType, FlowType, ReaderType, Starts, diskVars, flowVars
    <2>6. ScreenType'
      BY <1>1 DEF TypeOK, ScreenType, Starts, screenVars
    <2> QED BY <2>1, <2>5, <2>6, TypePartsNext
  <1>2. ASSUME Begins(r) PROVE TypeOK'
    <2> DEFINE e == [call[r] EXCEPT !.at = "fetching", !.gen = generation + 1,
                       !.tenant = tenant, !.epoch = epoch, !.mid = MidSign]
    <2>0. call[r] \in Call /\ call[r].gen <= generation /\ call[r].seq <= seq
          /\ call[r].gen \in Nat /\ call[r].seq \in Nat
          /\ generation \in Nat /\ seq \in Nat
      BY DEF TypeOK, Call
    <2>7. generation + 1 \in Nat /\ tenant \in Tenant /\ epoch \in Nat
      BY DEF TypeOK
    <2>8. \A n, k \in Nat, t \in Tenant, b \in BOOLEAN :
             [call[r] EXCEPT !.at = "fetching", !.gen = n, !.tenant = t,
                             !.epoch = k, !.mid = b] \in Call
      BY <2>0, BegunIsCall
    <2>2. e \in Call
      BY <2>0, <2>7, <2>8, MidSignIsBoolean, Zenon
    <2>3. e.gen <= generation' /\ e.seq <= seq' /\ generation <= generation' /\ seq <= seq'
          /\ generation' \in Nat /\ seq' \in Nat
      BY <1>2, <2>0, MidSignIsBoolean DEF Begins, screenVars, Call
    <2>4. call' = [call EXCEPT ![r] = e]
      BY <1>2 DEF Begins
    <2>1. CallType' /\ Stamps'
      <3> HIDE DEF e
      <3> QED BY <2>2, <2>3, <2>4, CallReplaced
    <2>5. SlotType' /\ DiskType' /\ FlowType' /\ ReaderType'
      BY <1>2 DEF TypeOK, SlotType, Result, DiskType, FlowType, ReaderType, Begins, diskVars, flowVars
    <2>6. ScreenType'
      BY <1>2 DEF TypeOK, ScreenType, Begins, screenVars
    <2> QED BY <2>1, <2>5, <2>6, TypePartsNext
  <1>3. ASSUME Fetches(r) PROVE TypeOK'
    <2> DEFINE e == [call[r] EXCEPT !.rows = @ \union {auth}]
    <2>0. call[r] \in Call /\ call[r].gen <= generation /\ call[r].seq <= seq
          /\ call[r].gen \in Nat /\ call[r].seq \in Nat
          /\ generation \in Nat /\ seq \in Nat
      BY DEF TypeOK, Call
    <2>2. e \in Call
      BY <2>0 DEF TypeOK, Call, Places, Source
    <2>3. e.gen <= generation' /\ e.seq <= seq' /\ generation <= generation' /\ seq <= seq'
          /\ generation' \in Nat /\ seq' \in Nat
      BY <1>3, <2>0 DEF Fetches, screenVars, Call, Source
    <2>4. call' = [call EXCEPT ![r] = e]
      BY <1>3 DEF Fetches
    <2>1. CallType' /\ Stamps'
      <3> HIDE DEF e
      <3> QED BY <2>2, <2>3, <2>4, CallReplaced
    <2>5. SlotType' /\ DiskType' /\ FlowType' /\ ReaderType'
      BY <1>3 DEF TypeOK, SlotType, Result, DiskType, FlowType, ReaderType, Fetches, diskVars, flowVars
    <2>6. ScreenType'
      BY <1>3 DEF TypeOK, ScreenType, Fetches, screenVars
    <2> QED BY <2>1, <2>5, <2>6, TypePartsNext
  <1>4. ASSUME FetchFails(r) PROVE TypeOK'
    <2>1. CallType' /\ Stamps'
      BY <1>4, AnswersKeepsType DEF FetchFails, screenVars
    <2>5. SlotType' /\ DiskType' /\ FlowType' /\ ReaderType'
      BY <1>4 DEF TypeOK, SlotType, Result, DiskType, FlowType, ReaderType, FetchFails, diskVars, flowVars
    <2>6. ScreenType'
      BY <1>4 DEF TypeOK, ScreenType, FetchFails, screenVars
    <2> QED BY <2>1, <2>5, <2>6, TypePartsNext
  <1>5. ASSUME Assembles(r) PROVE TypeOK'
    <2> DEFINE e == [call[r] EXCEPT !.at = "assembled", !.previous = Baseline(call[r].tenant)]
    <2>0. call[r] \in Call /\ call[r].gen <= generation /\ call[r].seq <= seq
          /\ call[r].gen \in Nat /\ call[r].seq \in Nat
          /\ generation \in Nat /\ seq \in Nat
      BY DEF TypeOK, Call
    <2>2. e \in Call
      BY <2>0, BaselineType DEF TypeOK, Call, Places
    <2>3. e.gen <= generation' /\ e.seq <= seq' /\ generation <= generation' /\ seq <= seq'
          /\ generation' \in Nat /\ seq' \in Nat
      BY <1>5, <2>0 DEF Assembles, screenVars, Call
    <2>4. call' = [call EXCEPT ![r] = e]
      BY <1>5 DEF Assembles
    <2>1. CallType' /\ Stamps'
      <3> HIDE DEF e
      <3> QED BY <2>2, <2>3, <2>4, CallReplaced
    <2>5. SlotType' /\ DiskType' /\ FlowType' /\ ReaderType'
      BY <1>5 DEF TypeOK, SlotType, Result, DiskType, FlowType, ReaderType, Assembles, diskVars, flowVars
    <2>6. ScreenType'
      BY <1>5 DEF TypeOK, ScreenType, Assembles, screenVars
    <2> QED BY <2>1, <2>5, <2>6, TypePartsNext
  <1>6. ASSUME Checks(r) PROVE TypeOK'
    <2> DEFINE e == [call[r] EXCEPT !.at = "checked", !.previous = 0]
    <2>0. call[r] \in Call /\ call[r].gen <= generation /\ call[r].seq <= seq
          /\ call[r].gen \in Nat /\ call[r].seq \in Nat
          /\ generation \in Nat /\ seq \in Nat
      BY DEF TypeOK, Call
    <2>2. e \in Call
      BY <2>0 DEF TypeOK, Call, Places
    <2>3. e.gen <= generation' /\ e.seq <= seq' /\ generation <= generation' /\ seq <= seq'
          /\ generation' \in Nat /\ seq' \in Nat
      BY <1>6, <2>0 DEF Checks, screenVars, Call
    <2>4. ASSUME call' = [call EXCEPT ![r] = e] PROVE CallType' /\ Stamps'
      <3> HIDE DEF e
      <3> QED BY <2>2, <2>3, <2>4, CallReplaced
    <2>8. ASSUME Answers(r, FALSE) PROVE CallType' /\ Stamps'
      BY <1>6, <2>8, AnswersKeepsType DEF Checks, screenVars
    <2>1. CallType' /\ Stamps'
      BY <1>6, <2>4, <2>8 DEF Checks
    <2>5. SlotType' /\ DiskType' /\ FlowType' /\ ReaderType'
      BY <1>6 DEF TypeOK, SlotType, Result, DiskType, FlowType, ReaderType, Checks, diskVars, flowVars
    <2>6. ScreenType'
      BY <1>6 DEF TypeOK, ScreenType, Checks, screenVars
    <2> QED BY <2>1, <2>5, <2>6, TypePartsNext
  <1>7. ASSUME Superseded(r) PROVE TypeOK'
    <2>1. CallType' /\ Stamps'
      BY <1>7, AnswersKeepsType DEF Superseded, screenVars
    <2>5. SlotType' /\ DiskType' /\ FlowType' /\ ReaderType'
      BY <1>7 DEF TypeOK, SlotType, Result, DiskType, FlowType, ReaderType, Superseded, diskVars, flowVars
    <2>6. ScreenType'
      BY <1>7 DEF TypeOK, ScreenType, Superseded, screenVars
    <2> QED BY <2>1, <2>5, <2>6, TypePartsNext
  <1>8. ASSUME SessionCleared(r) PROVE TypeOK'
    <2>1. CallType' /\ Stamps'
      BY <1>8, AnswersKeepsType DEF SessionCleared, screenVars
    <2>5. SlotType' /\ DiskType' /\ FlowType' /\ ReaderType'
      BY <1>8 DEF TypeOK, SlotType, Result, DiskType, FlowType, ReaderType, SessionCleared, diskVars, flowVars
    <2>6. ScreenType'
      BY <1>8 DEF TypeOK, ScreenType, SessionCleared, screenVars
    <2> QED BY <2>1, <2>5, <2>6, TypePartsNext
  <1>9. ASSUME Stores(r) PROVE TypeOK'
    <2> DEFINE e == Kept(r)
    <2>0. call[r] \in Call /\ call[r].gen <= generation /\ call[r].seq <= seq
          /\ call[r].gen \in Nat /\ call[r].seq \in Nat
          /\ generation \in Nat /\ seq \in Nat
      BY DEF TypeOK, Call
    <2>2. e \in Call
      BY <2>0 DEF TypeOK, Call, Places, Kept, NoCall
    <2>3. e.gen <= generation' /\ e.seq <= seq' /\ generation <= generation' /\ seq <= seq'
          /\ generation' \in Nat /\ seq' \in Nat
      BY <1>9, <2>0 DEF Stores, screenVars, Call, Kept, NoCall
    <2>4. call' = [call EXCEPT ![r] = e]
      BY <1>9 DEF Stores
    <2>1. CallType' /\ Stamps'
      <3> HIDE DEF e
      <3> QED BY <2>2, <2>3, <2>4, CallReplaced
    <2>5. SlotType'
      BY <1>9, <2>0 DEF TypeOK, SlotType, Stores, Cached, Result, Call
    <2>6. DiskType'
      BY <1>9, <2>0 DEF TypeOK, DiskType, Stores
    <2>7. FlowType' /\ ScreenType' /\ ReaderType'
      BY <1>9 DEF TypeOK, FlowType, ScreenType, ReaderType, Stores, flowVars, screenVars
    <2> QED BY <2>1, <2>5, <2>6, <2>7, TypePartsNext
  <1>10. ASSUME Writes(r) PROVE TypeOK'
    <2> DEFINE e == [call[r] EXCEPT !.at = "written"]
    <2>0. call[r] \in Call /\ call[r].gen <= generation /\ call[r].seq <= seq
          /\ call[r].gen \in Nat /\ call[r].seq \in Nat
          /\ generation \in Nat /\ seq \in Nat
      BY DEF TypeOK, Call
    <2>2. e \in Call
      BY <2>0 DEF TypeOK, Call, Places
    <2>3. e.gen <= generation' /\ e.seq <= seq' /\ generation <= generation' /\ seq <= seq'
          /\ generation' \in Nat /\ seq' \in Nat
      BY <1>10, <2>0 DEF Writes, screenVars, Call
    <2>4. call' = [call EXCEPT ![r] = e]
      BY <1>10 DEF Writes
    <2>1. CallType' /\ Stamps'
      <3> HIDE DEF e
      <3> QED BY <2>2, <2>3, <2>4, CallReplaced
    <2>5. SlotType' /\ FlowType' /\ ScreenType' /\ ReaderType'
      BY <1>10 DEF TypeOK, SlotType, FlowType, ScreenType, ReaderType, Writes, flowVars, screenVars
    <2>6. DiskType'
      <3>1. call[r].gen \in Nat /\ call[r].tenant \in Tenant
        BY DEF TypeOK, Call
      <3> QED BY <1>10, <3>1 DEF TypeOK, DiskType, Snapshot, Writes
    <2> QED BY <2>1, <2>5, <2>6, TypePartsNext
  <1>11. ASSUME WriteFails(r) PROVE TypeOK'
    <2>1. CallType' /\ Stamps'
      BY <1>11, AnswersKeepsType DEF WriteFails, screenVars
    <2>5. SlotType' /\ FlowType' /\ ScreenType' /\ ReaderType'
      BY <1>11 DEF TypeOK, SlotType, FlowType, ScreenType, ReaderType, WriteFails, flowVars, screenVars
    <2>6. DiskType'
      <3>1. call[r].gen \in Nat /\ call[r].tenant \in Tenant
        BY DEF TypeOK, Call
      <3> QED BY <1>11, <3>1 DEF TypeOK, DiskType, Snapshot, WriteFails
    <2> QED BY <2>1, <2>5, <2>6, TypePartsNext
  <1>12. ASSUME Remembers(r) PROVE TypeOK'
    <2>1. CallType' /\ Stamps'
      BY <1>12, AnswersKeepsType DEF Remembers, screenVars
    <2>5. SlotType' /\ FlowType' /\ ScreenType' /\ ReaderType'
      BY <1>12 DEF TypeOK, SlotType, FlowType, ScreenType, ReaderType, Remembers, flowVars, screenVars
    <2>6. DiskType'
      <3>1. call[r].gen \in Nat /\ call[r].tenant \in Tenant
        BY DEF TypeOK, Call
      <3> QED BY <1>12, <3>1 DEF TypeOK, DiskType, Snapshot, Remembers
    <2> QED BY <2>1, <2>5, <2>6, TypePartsNext
  <1>13. ASSUME Overtakes(r) PROVE TypeOK'
    <2>1. CallType' /\ Stamps' /\ seq' \in Nat /\ queued' \in BOOLEAN
      BY <1>13, RunsQueuedKeepsType DEF Overtakes
    <2>2. SlotType' /\ DiskType' /\ FlowType' /\ ReaderType'
      BY <1>13 DEF TypeOK, SlotType, DiskType, FlowType, ReaderType, Overtakes, diskVars, flowVars
    <2>3. ScreenType'
      BY <1>13, <2>1 DEF TypeOK, Call, ScreenType, Overtakes
    <2> QED BY <2>1, <2>2, <2>3, TypePartsNext
  <1>14. ASSUME Paints(r) PROVE TypeOK'
    <2>1. CallType' /\ Stamps' /\ seq' \in Nat /\ queued' \in BOOLEAN
      BY <1>14, RunsQueuedKeepsType DEF Paints
    <2>2. SlotType' /\ DiskType' /\ FlowType' /\ ReaderType'
      BY <1>14 DEF TypeOK, SlotType, DiskType, FlowType, ReaderType, Paints, diskVars, flowVars
    <2>3. ScreenType'
      BY <1>14, <2>1 DEF TypeOK, Call, ScreenType, Paints
    <2> QED BY <2>1, <2>2, <2>3, TypePartsNext
  <1>15. ASSUME ShowsError(r) PROVE TypeOK'
    <2>1. CallType' /\ Stamps' /\ seq' \in Nat /\ queued' \in BOOLEAN
      BY <1>15, RunsQueuedKeepsType DEF ShowsError
    <2>2. SlotType' /\ DiskType' /\ FlowType' /\ ReaderType'
      BY <1>15 DEF TypeOK, SlotType, DiskType, FlowType, ReaderType, ShowsError, diskVars, flowVars
    <2>3. ScreenType'
      BY <1>15, <2>1 DEF TypeOK, Call, ScreenType, ShowsError
    <2> QED BY <2>1, <2>2, <2>3, TypePartsNext
  <1> QED BY <1>1, <1>2, <1>3, <1>4, <1>5, <1>6, <1>7, <1>8, <1>9, <1>10, <1>11, <1>12, <1>13, <1>14, <1>15 DEF RunStep

(* Every step of a command that ends a session keeps the types.            *)
LEMMA SaverKeepsType ==
    ASSUME TypeOK, NEW s \in Saver, SaverStep(s)
    PROVE  TypeOK'
  <1>1. ASSUME Publish(s) PROVE TypeOK'
    <2>1. UNCHANGED <<call, generation, seq>>
      BY <1>1 DEF Publish, SaveGoes, screenVars
    <2>2. CallType' /\ Stamps'
      BY <2>1, CallsKept DEF TypeOK
    <2>3. SlotType' /\ DiskType' /\ ReaderType'
      BY <1>1 DEF TypeOK, SlotType, DiskType, ReaderType, diskVars, Publish, SaveGoes
    <2>4. FlowType'
      BY <1>1 DEF TypeOK, FlowType, SavePlaces, SignPlaces, Publish, SaveGoes
    <2>5. ScreenType'
      BY <1>1 DEF TypeOK, ScreenType, screenVars, Publish, SaveGoes
    <2> QED BY <2>2, <2>3, <2>4, <2>5, TypePartsNext
  <1>2. ASSUME ApplySettings(s) PROVE TypeOK'
    <2>1. UNCHANGED <<call, generation, seq>>
      BY <1>2 DEF ApplySettings, Ended, screenVars
    <2>2. CallType' /\ Stamps'
      BY <2>1, CallsKept DEF TypeOK
    <2>3. SlotType' /\ DiskType' /\ ReaderType'
      BY <1>2 DEF TypeOK, SlotType, DiskType, ReaderType, diskVars, ApplySettings, Ended
    <2>4. FlowType'
      BY <1>2 DEF TypeOK, FlowType, SavePlaces, SignPlaces, Source, Operator, ApplySettings, Ended
    <2>5. ScreenType'
      BY <1>2 DEF TypeOK, ScreenType, screenVars, ApplySettings, Ended
    <2> QED BY <2>2, <2>3, <2>4, <2>5, TypePartsNext
  <1>3. ASSUME SaveBumps(s) PROVE TypeOK'
    <2>1. UNCHANGED <<call, generation, seq>>
      BY <1>3 DEF SaveBumps, SaveGoes, BumpsEpoch, screenVars
    <2>2. CallType' /\ Stamps'
      BY <2>1, CallsKept DEF TypeOK
    <2>3. SlotType' /\ DiskType' /\ ReaderType'
      BY <1>3 DEF TypeOK, SlotType, DiskType, ReaderType, diskVars, SaveBumps, SaveGoes, BumpsEpoch
    <2>4. FlowType'
      BY <1>3 DEF TypeOK, FlowType, SavePlaces, SignPlaces, SaveBumps, SaveGoes, BumpsEpoch
    <2>5. ScreenType'
      BY <1>3 DEF TypeOK, ScreenType, screenVars, SaveBumps, SaveGoes, BumpsEpoch
    <2> QED BY <2>2, <2>3, <2>4, <2>5, TypePartsNext
  <1>4. ASSUME SaveTakes(s) PROVE TypeOK'
    <2>1. UNCHANGED <<call, generation, seq>>
      BY <1>4 DEF SaveTakes, SaveGoes, TakesResult, screenVars
    <2>2. CallType' /\ Stamps'
      BY <2>1, CallsKept DEF TypeOK
    <2>3. SlotType' /\ DiskType' /\ ReaderType'
      BY <1>4 DEF TypeOK, SlotType, DiskType, ReaderType, diskVars, SaveTakes, SaveGoes, TakesResult, NoResult, Result
    <2>4. FlowType'
      BY <1>4 DEF TypeOK, FlowType, SavePlaces, SignPlaces, SaveTakes, SaveGoes, TakesResult
    <2>5. ScreenType'
      BY <1>4 DEF TypeOK, ScreenType, screenVars, SaveTakes, SaveGoes, TakesResult
    <2> QED BY <2>2, <2>3, <2>4, <2>5, TypePartsNext
  <1>5. ASSUME SaveReturns(s) PROVE TypeOK'
    <2>1. UNCHANGED <<call, generation>> /\ (seq' = seq + 1 \/ seq' = seq)
      BY <1>5 DEF SaveReturns, SaveGoes, ClearSession, ShowsFailure
    <2>2. CallType' /\ Stamps'
      BY <2>1, CallsKept DEF TypeOK
    <2>3. SlotType' /\ DiskType' /\ ReaderType'
      BY <1>5 DEF TypeOK, SlotType, DiskType, ReaderType, diskVars, SaveReturns, SaveGoes, ClearSession, ShowsFailure
    <2>4. FlowType'
      BY <1>5 DEF TypeOK, FlowType, SavePlaces, SignPlaces, SaveReturns, SaveGoes, ClearSession, ShowsFailure
    <2>6. generation' \in Nat /\ seq' \in Nat
      BY <2>1 DEF TypeOK
    <2>7. painted' \in Nat
      BY <1>5 DEF TypeOK, SaveReturns, SaveGoes, ClearSession, ShowsFailure
    <2>8. queued' \in BOOLEAN /\ overlapped' \in BOOLEAN /\ stranded' \in BOOLEAN
      BY <1>5, Zenon DEF TypeOK, SaveReturns, SaveGoes, ClearSession, ShowsFailure
    <2>5. ScreenType'
      BY <2>6, <2>7, <2>8 DEF ScreenType
    <2> QED BY <2>2, <2>3, <2>4, <2>5, TypePartsNext
  <1> QED BY <1>1, <1>2, <1>3, <1>4, <1>5 DEF SaverStep

LEMMA SignerKeepsType ==
    ASSUME TypeOK, NEW g \in Signer, SignerStep(g)
    PROVE  TypeOK'
  <1>1. ASSUME SignBumps(g) PROVE TypeOK'
    <2>1. UNCHANGED <<call, generation, seq>>
      BY <1>1 DEF SignBumps, SignGoes, BumpsEpoch, screenVars
    <2>2. CallType' /\ Stamps'
      BY <2>1, CallsKept DEF TypeOK
    <2>3. SlotType' /\ DiskType' /\ ReaderType'
      BY <1>1 DEF TypeOK, SlotType, DiskType, ReaderType, diskVars, SignBumps, SignGoes, BumpsEpoch
    <2>4. FlowType'
      BY <1>1 DEF TypeOK, FlowType, SavePlaces, SignPlaces, SignBumps, SignGoes, BumpsEpoch
    <2>5. ScreenType'
      BY <1>1 DEF TypeOK, ScreenType, screenVars, SignBumps, SignGoes, BumpsEpoch
    <2> QED BY <2>2, <2>3, <2>4, <2>5, TypePartsNext
  <1>2. ASSUME SignTakes(g) PROVE TypeOK'
    <2>1. UNCHANGED <<call, generation, seq>>
      BY <1>2 DEF SignTakes, SignGoes, TakesResult, screenVars
    <2>2. CallType' /\ Stamps'
      BY <2>1, CallsKept DEF TypeOK
    <2>3. SlotType' /\ DiskType' /\ ReaderType'
      BY <1>2 DEF TypeOK, SlotType, DiskType, ReaderType, diskVars, SignTakes, SignGoes, TakesResult, NoResult, Result
    <2>4. FlowType'
      BY <1>2 DEF TypeOK, FlowType, SavePlaces, SignPlaces, SignTakes, SignGoes, TakesResult
    <2>5. ScreenType'
      BY <1>2 DEF TypeOK, ScreenType, screenVars, SignTakes, SignGoes, TakesResult
    <2> QED BY <2>2, <2>3, <2>4, <2>5, TypePartsNext
  <1>3. ASSUME Logout(g) PROVE TypeOK'
    <2>1. UNCHANGED <<call, generation, seq>>
      BY <1>3 DEF Logout, Leaves, Ended, Browse, screenVars
    <2>2. CallType' /\ Stamps'
      BY <2>1, CallsKept DEF TypeOK
    <2>3. SlotType' /\ DiskType' /\ ReaderType'
      BY <1>3 DEF TypeOK, SlotType, DiskType, ReaderType, diskVars, Logout, Leaves, Ended, Browse
    <2>4. FlowType'
      BY <1>3 DEF TypeOK, FlowType, SavePlaces, SignPlaces, Source, Operator, Logout, Leaves, Ended, Browse
    <2>5. ScreenType'
      BY <1>3 DEF TypeOK, ScreenType, screenVars, Logout, Leaves, Ended, Browse
    <2> QED BY <2>2, <2>3, <2>4, <2>5, TypePartsNext
  <1>4. ASSUME FindsNone(g) PROVE TypeOK'
    <2>1. UNCHANGED <<call, generation, seq>>
      BY <1>4 DEF FindsNone, SignGoes, Leaves, Browse, screenVars
    <2>2. CallType' /\ Stamps'
      BY <2>1, CallsKept DEF TypeOK
    <2>3. SlotType' /\ DiskType' /\ ReaderType'
      BY <1>4 DEF TypeOK, SlotType, DiskType, ReaderType, diskVars, FindsNone, SignGoes, Leaves, Browse
    <2>4. FlowType'
      BY <1>4 DEF TypeOK, FlowType, SavePlaces, SignPlaces, Source, Operator, FindsNone, SignGoes, Leaves, Browse
    <2>5. ScreenType'
      BY <1>4 DEF TypeOK, ScreenType, screenVars, FindsNone, SignGoes, Leaves, Browse
    <2> QED BY <2>2, <2>3, <2>4, <2>5, TypePartsNext
  <1>5. ASSUME Login(g) PROVE TypeOK'
    <2>1. UNCHANGED <<call, generation, seq>>
      BY <1>5 DEF Login, SignGoes, screenVars
    <2>2. CallType' /\ Stamps'
      BY <2>1, CallsKept DEF TypeOK
    <2>3. SlotType' /\ DiskType' /\ ReaderType'
      BY <1>5 DEF TypeOK, SlotType, DiskType, ReaderType, diskVars, Login, SignGoes
    <2>4. FlowType'
      BY <1>5 DEF TypeOK, FlowType, SavePlaces, SignPlaces, Source, Operator, Login, SignGoes
    <2>5. ScreenType'
      BY <1>5 DEF TypeOK, ScreenType, screenVars, Login, SignGoes
    <2> QED BY <2>2, <2>3, <2>4, <2>5, TypePartsNext
  <1>6. ASSUME SignReturns(g) PROVE TypeOK'
    <2>1. UNCHANGED <<call, generation>> /\ (seq' = seq + 1 \/ seq' = seq)
      BY <1>6 DEF SignReturns, SignGoes, ClearSession
    <2>2. CallType' /\ Stamps'
      BY <2>1, CallsKept DEF TypeOK
    <2>3. SlotType' /\ DiskType' /\ ReaderType'
      BY <1>6 DEF TypeOK, SlotType, DiskType, ReaderType, diskVars, SignReturns, SignGoes, ClearSession
    <2>4. FlowType'
      BY <1>6 DEF TypeOK, FlowType, SavePlaces, SignPlaces, SignReturns, SignGoes, ClearSession
    <2>6. generation' \in Nat /\ seq' \in Nat
      BY <2>1 DEF TypeOK
    <2>7. painted' \in Nat
      BY <1>6 DEF TypeOK, SignReturns, SignGoes, ClearSession
    <2>8. queued' \in BOOLEAN /\ overlapped' \in BOOLEAN /\ stranded' \in BOOLEAN
      BY <1>6, Zenon DEF TypeOK, SignReturns, SignGoes, ClearSession
    <2>5. ScreenType'
      BY <2>6, <2>7, <2>8 DEF ScreenType
    <2> QED BY <2>2, <2>3, <2>4, <2>5, TypePartsNext
  <1>7. ASSUME SignFails(g) PROVE TypeOK'
    <2>1. UNCHANGED <<call, generation, seq>>
      BY <1>7 DEF SignFails, SignGoes, ShowsFailure, screenVars
    <2>2. CallType' /\ Stamps'
      BY <2>1, CallsKept DEF TypeOK
    <2>3. SlotType' /\ DiskType' /\ ReaderType'
      BY <1>7 DEF TypeOK, SlotType, DiskType, ReaderType, diskVars, SignFails, SignGoes, ShowsFailure
    <2>4. FlowType'
      BY <1>7 DEF TypeOK, FlowType, SavePlaces, SignPlaces, SignFails, SignGoes, ShowsFailure
    <2>5. ScreenType'
      BY <1>7 DEF TypeOK, ScreenType, screenVars, SignFails, SignGoes, ShowsFailure
    <2> QED BY <2>2, <2>3, <2>4, <2>5, TypePartsNext
  <1> QED BY <1>1, <1>2, <1>3, <1>4, <1>5, <1>6, <1>7 DEF SignerStep

LEMMA ReaderKeepsType ==
    ASSUME TypeOK, NEW v \in Reader, TakesHandle(v) \/ OffersMemo(v)
    PROVE  TypeOK'
  <1>1. UNCHANGED <<call, generation, seq>>
    BY DEF TakesHandle, OffersMemo, screenVars
  <1>2. CallType' /\ Stamps'
    BY <1>1, CallsKept DEF TypeOK
  <1>3. slot.gen \in Nat /\ reader[v] \in Nat
    BY DEF TypeOK, Result
  <1>4. SlotType'
    BY <1>3 DEF TypeOK, SlotType, Result, TakesHandle, OffersMemo, screenVars
  <1>5. ReaderType'
    BY <1>3 DEF TypeOK, ReaderType, TakesHandle, OffersMemo
  <1>6. DiskType' /\ FlowType' /\ ScreenType'
    BY DEF TypeOK, DiskType, FlowType, ScreenType, TakesHandle, OffersMemo,
           diskVars, flowVars, screenVars
  <1> QED BY <1>2, <1>4, <1>5, <1>6, TypePartsNext

LEMMA OthersKeepType ==
    ASSUME TypeOK, Queues \/ Waits \/ UNCHANGED vars
    PROVE  TypeOK'
  <1>1. UNCHANGED <<call, generation, seq>>
    BY DEF Queues, Waits, vars, screenVars
  <1>2. CallType' /\ Stamps'
    BY <1>1, CallsKept DEF TypeOK
  <1>3. SlotType' /\ DiskType' /\ FlowType' /\ ReaderType'
    BY DEF TypeOK, SlotType, DiskType, FlowType, ReaderType, Queues, Waits, vars,
           diskVars, flowVars
  <1>4. ScreenType'
    BY DEF TypeOK, ScreenType, Queues, Waits, vars, screenVars
  <1> QED BY <1>2, <1>3, <1>4, TypePartsNext

LEMMA TypeInit == Init => TypeOK
  <1> SUFFICES ASSUME Init PROVE TypeOK
    OBVIOUS
  <1>1. CallType /\ Stamps
    BY NoCallIsCall DEF Init, CallType, Stamps
  <1>2. SlotType
    BY DEF Init, SlotType, NoResult, Result
  <1>3. DiskType
    BY DEF Init, DiskType, NoSnapshot, Snapshot
  <1>4. FlowType
    BY DEF Init, FlowType, Source, Operator, SavePlaces, SignPlaces
  <1>5. ScreenType /\ ReaderType
    BY DEF Init, ScreenType, ReaderType
  <1> QED BY <1>1, <1>2, <1>3, <1>4, <1>5, TypeParts

LEMMA TypeStep == TypeOK /\ [Next]_vars => TypeOK'
  BY RunKeepsType, SaverKeepsType, SignerKeepsType, ReaderKeepsType, OthersKeepType DEF Next

(* Types hold, and no stamp runs ahead of its counter, for any number of   *)
(* runs, readers and commands.                                             *)
THEOREM TypeCorrect == Spec => []TypeOK
  BY TypeInit, TypeStep, PTL DEF Spec

-----------------------------------------------------------------------------
(* The result cache                                                        *)

(* A run is stored only while its generation is the last one begun, and no *)
(* result was begun after it.                                              *)
LEMMA StoreIsNewer == TypeOK /\ [Next]_vars => slot'.gen = 0 \/ slot'.gen >= slot.gen
  <1> SUFFICES ASSUME TypeOK, [Next]_vars
               PROVE  slot'.gen = 0 \/ slot'.gen >= slot.gen
    OBVIOUS
  <1>1. slot.gen \in Nat /\ slot.gen <= generation /\ generation \in Nat
    BY DEF TypeOK, Result
  <1>2. ASSUME NEW r \in Run, RunStep(r)
        PROVE  slot'.gen = 0 \/ slot'.gen >= slot.gen
    <2>1. CASE Stores(r)
      BY <1>1, <2>1 DEF Stores, Cached
    <2>2. CASE UNCHANGED slot
      BY <1>1, <2>2
    <2> QED BY <1>2, <2>1, <2>2 DEF RunStep, Starts, Begins, Fetches, FetchFails, Assembles,
          Checks, Superseded, SessionCleared, Writes, WriteFails, Remembers, Overtakes, Paints,
          ShowsError
  <1>3. ASSUME NEW v \in Reader, TakesHandle(v) \/ OffersMemo(v)
        PROVE  slot'.gen = 0 \/ slot'.gen >= slot.gen
    <2>1. slot'.gen = slot.gen
      BY <1>3 DEF TypeOK, Result, TakesHandle, OffersMemo
    <2> QED BY <1>1, <2>1
  <1>4. ASSUME NEW s \in Saver, SaverStep(s)
        PROVE  slot'.gen = 0 \/ slot'.gen >= slot.gen
    <2>1. slot' = NoResult \/ UNCHANGED slot
      BY <1>4 DEF SaverStep, Publish, ApplySettings, SaveBumps, SaveTakes, SaveReturns,
         BumpsEpoch, TakesResult, ClearSession, ShowsFailure
    <2> QED BY <1>1, <2>1 DEF NoResult
  <1>5. ASSUME NEW g \in Signer, SignerStep(g)
        PROVE  slot'.gen = 0 \/ slot'.gen >= slot.gen
    <2>1. slot' = NoResult \/ UNCHANGED slot
      BY <1>5 DEF SignerStep, SignBumps, SignTakes, Logout, FindsNone, Login, SignReturns, SignFails,
         BumpsEpoch, TakesResult, Leaves, ClearSession, ShowsFailure
    <2> QED BY <1>1, <2>1 DEF NoResult
  <1>6. CASE Queues \/ Waits \/ UNCHANGED vars
    <2>1. UNCHANGED slot
      BY <1>6 DEF Queues, Waits, vars
    <2> QED BY <1>1, <2>1
  <1> QED BY <1>2, <1>3, <1>4, <1>5, <1>6 DEF Next

(* The cached result is never replaced by one of a run that began earlier, *)
(* in whatever order runs finish.                                          *)
THEOREM ResultsAreNeverOlder == Spec => NeverOlder
  <1>1. TypeOK /\ [Next]_vars => [slot'.gen = 0 \/ slot'.gen >= slot.gen]_slot
    BY StoreIsNewer
  <1> QED BY <1>1, TypeCorrect, PTL DEF Spec, NeverOlder

LEMMA MemoStep == TypeOK /\ MemoFits /\ [Next]_vars => MemoFits'
  <1> SUFFICES ASSUME TypeOK, MemoFits, [Next]_vars
               PROVE  MemoFits'
    OBVIOUS
  <1>1. ASSUME NEW r \in Run, RunStep(r) PROVE MemoFits'
    <2>1. CASE Stores(r)
      BY <2>1 DEF Stores, Cached, MemoFits
    <2>2. CASE UNCHANGED slot
      BY <2>2 DEF MemoFits
    <2> QED BY <1>1, <2>1, <2>2 DEF RunStep, Starts, Begins, Fetches, FetchFails, Assembles,
          Checks, Superseded, SessionCleared, Writes, WriteFails, Remembers, Overtakes, Paints,
          ShowsError
  <1>2. ASSUME NEW v \in Reader, TakesHandle(v) \/ OffersMemo(v) PROVE MemoFits'
    BY <1>2 DEF TakesHandle, OffersMemo, MemoFits, TypeOK, Result
  <1>3. ASSUME NEW s \in Saver, SaverStep(s) PROVE MemoFits'
    BY <1>3 DEF SaverStep, Publish, ApplySettings, SaveBumps, SaveTakes, SaveReturns,
       BumpsEpoch, TakesResult, ClearSession, ShowsFailure, MemoFits, NoResult
  <1>4. ASSUME NEW g \in Signer, SignerStep(g) PROVE MemoFits'
    BY <1>4 DEF SignerStep, SignBumps, SignTakes, Logout, FindsNone, Login, SignReturns, SignFails,
       BumpsEpoch, TakesResult, Leaves, ClearSession, ShowsFailure, MemoFits, NoResult
  <1>5. CASE Queues \/ Waits \/ UNCHANGED vars
    BY <1>5 DEF Queues, Waits, vars, MemoFits
  <1> QED BY <1>1, <1>2, <1>3, <1>4, <1>5 DEF Next

(* A sort order or grouping kept in the cache is of the result beside it.  *)
THEOREM MemosFit == Spec => []MemoFits
  <1>1. Init => MemoFits
    BY DEF Init, NoResult, MemoFits
  <1> QED BY <1>1, MemoStep, TypeCorrect, PTL DEF Spec

-----------------------------------------------------------------------------
(* The queue                                                               *)

(* A step that leaves the queue and no run of those in flight.             *)
LEMMA StillInFlight ==
    ASSUME NoClickLost, UNCHANGED queued, \A o \in Run : InFlight(o) => InFlight(o)'
    PROVE  NoClickLost'
  BY DEF NoClickLost

LEMMA ReplyDrains ==
    ASSUME TypeOK, NEW r \in Run, RunsQueued(r)
    PROVE  NoClickLost'
  <1>1. CASE queued' = FALSE
    BY <1>1 DEF NoClickLost
  <1>2. CASE queued' = (queued /\ ~Last(r)) /\ call' = [call EXCEPT ![r] = NoCall]
    <2>1. SUFFICES ASSUME queued' PROVE \E o \in Run : InFlight(o)'
      BY DEF NoClickLost
    <2>2. PICK o \in Run : o # r /\ InFlight(o)
      BY <1>2, <2>1, Zenon DEF Last
    <2>3. call'[o] = call[o]
      BY <1>2, <2>2 DEF TypeOK
    <2> QED BY <2>2, <2>3 DEF InFlight
  <1> QED BY <1>1, <1>2 DEF RunsQueued

LEMMA QueueStep == TypeOK /\ NoClickLost /\ [Next]_vars => NoClickLost'
  <1> SUFFICES ASSUME TypeOK, NoClickLost, [Next]_vars
               PROVE  NoClickLost'
    OBVIOUS
  <1>1. ASSUME NEW r \in Run, RunStep(r) PROVE NoClickLost'
    <2>1. CASE Overtakes(r) \/ Paints(r) \/ ShowsError(r)
      BY <2>1, ReplyDrains DEF Overtakes, Paints, ShowsError
    <2>2. CASE Starts(r) \/ Begins(r) \/ Fetches(r) \/ Assembles(r) \/ Checks(r) \/ Stores(r)
               \/ Writes(r)
      <3>1. UNCHANGED queued
        BY <2>2 DEF Starts, Begins, Fetches, Assembles, Checks, Stores, Writes, screenVars
      <3>2. ASSUME NEW o \in Run, InFlight(o) PROVE InFlight(o)'
        <4>1. CASE o = r
          <5>0. call \in [Run -> Call] /\ call[r] \in Call
            BY DEF TypeOK
          <5>1. CASE Starts(r)
            BY <3>2, <4>1, <5>0, <5>1 DEF InFlight, Starts, Started, NoCall, Call
          <5>2. CASE Begins(r)
            BY <3>2, <4>1, <5>0, <5>2 DEF InFlight, Begins, Call
          <5>3. CASE Fetches(r)
            BY <3>2, <4>1, <5>0, <5>3 DEF InFlight, Fetches, Call
          <5>4. CASE Assembles(r)
            BY <3>2, <4>1, <5>0, <5>4 DEF InFlight, Assembles, Call
          <5>5. CASE Checks(r)
            BY <3>2, <4>1, <5>0, <5>5, ZenonT(60) DEF InFlight, Checks, Answers, NoCall, Call
          <5>6. CASE Stores(r)
            BY <3>2, <4>1, <5>0, <5>6 DEF InFlight, Stores, Kept, NoCall, Call
          <5>7. CASE Writes(r)
            BY <3>2, <4>1, <5>0, <5>7 DEF InFlight, Writes, Call
          <5> QED BY <2>2, <5>1, <5>2, <5>3, <5>4, <5>5, <5>6, <5>7
        <4>2. CASE o # r
          <5>1. call'[o] = call[o]
            BY <2>2, <4>2 DEF TypeOK, Starts, Begins, Fetches, Assembles, Checks, Answers, Stores,
               Writes
          <5> QED BY <3>2, <5>1 DEF InFlight
        <4> QED BY <4>1, <4>2
      <3> QED BY <3>1, <3>2, StillInFlight
    <2>3. CASE FetchFails(r) \/ Superseded(r) \/ SessionCleared(r) \/ WriteFails(r) \/ Remembers(r)
      <3>1. UNCHANGED queued /\ \E ok \in BOOLEAN : Answers(r, ok)
        BY <2>3 DEF FetchFails, Superseded, SessionCleared, WriteFails, Remembers, screenVars
      <3>2. ASSUME NEW o \in Run, InFlight(o) PROVE InFlight(o)'
        BY <3>1, <3>2 DEF InFlight, TypeOK, Answers, NoCall
      <3> QED BY <3>1, <3>2, StillInFlight
    <2> QED BY <1>1, <2>1, <2>2, <2>3 DEF RunStep
  <1>2. ASSUME NEW v \in Reader, TakesHandle(v) \/ OffersMemo(v) PROVE NoClickLost'
    BY <1>2 DEF TakesHandle, OffersMemo, screenVars, NoClickLost, InFlight
  <1>3. ASSUME NEW s \in Saver, SaverStep(s) PROVE NoClickLost'
    <2>1. UNCHANGED call /\ (queued' = FALSE \/ UNCHANGED queued)
      BY <1>3 DEF SaverStep, Publish, ApplySettings, SaveBumps, SaveTakes, SaveReturns,
         BumpsEpoch, TakesResult, ClearSession, ShowsFailure, screenVars
    <2> QED BY <2>1 DEF NoClickLost, InFlight
  <1>4. ASSUME NEW g \in Signer, SignerStep(g) PROVE NoClickLost'
    <2>1. UNCHANGED call /\ (queued' = FALSE \/ UNCHANGED queued)
      BY <1>4 DEF SignerStep, SignBumps, SignTakes, Logout, FindsNone, Login, SignReturns, SignFails,
         BumpsEpoch, TakesResult, Leaves, ClearSession, ShowsFailure, screenVars
    <2> QED BY <2>1 DEF NoClickLost, InFlight
  <1>5. CASE Queues
    <2>1. UNCHANGED call /\ \E r \in Run : InFlight(r)
      BY <1>5 DEF Queues
    <2> QED BY <2>1 DEF NoClickLost, InFlight
  <1>6. CASE Waits \/ UNCHANGED vars
    BY <1>6 DEF Waits, vars, screenVars, NoClickLost, InFlight
  <1> QED BY <1>1, <1>2, <1>3, <1>4, <1>5, <1>6 DEF Next

(* A queued run always has a run in flight that will start it.             *)
THEOREM QueuedRunIsStarted == Spec => []NoClickLost
  <1>1. Init => NoClickLost
    BY DEF Init, NoClickLost
  <1> QED BY <1>1, QueueStep, TypeCorrect, PTL DEF Spec

-----------------------------------------------------------------------------
(* Whose rows the cache holds                                              *)

(* The parts of OwnInv.                                                    *)
CallsOwn == \A r \in Run : Own(call[r])
SlotOwned == \A row \in slot.rows : row.operator # Nobody
BrowsersOut == \A g \in Signer : signing[g] = "browsing" => auth.operator = Nobody
OneBrowser == \A g, h \in Signer : InBrowser(g) /\ InBrowser(h) => g = h
TakenEmpty == \A g \in Signer : signing[g] = "taken" => slot.gen = 0 \/ slot.mid

LEMMA OwnParts ==
    OwnInv <=> CallsOwn /\ SlotOwned /\ BrowsersOut /\ OneBrowser /\ TakenEmpty /\ OnlyOwnRows
  BY DEF OwnInv, CallsOwn, SlotOwned, BrowsersOut, OneBrowser, TakenEmpty

LEMMA OwnPartsNext ==
    OwnInv' <=> /\ CallsOwn' /\ SlotOwned' /\ BrowsersOut' /\ OneBrowser' /\ TakenEmpty'
                /\ OnlyOwnRows'
  BY DEF OwnInv, CallsOwn, SlotOwned, BrowsersOut, OneBrowser, TakenEmpty

(* A call replaced by one that is owned, with all else left alone.         *)
LEMMA OwnReplaced ==
    ASSUME TypeOK, OwnInv, NEW r \in Run, NEW e,
           call' = [call EXCEPT ![r] = e], Own(e),
           UNCHANGED <<tenant, auth, epoch, slot, saving, signing>>
    PROVE  OwnInv'
  <1>1. CallsOwn'
    <2>1. SUFFICES ASSUME NEW o \in Run PROVE Own(call[o])'
      BY DEF CallsOwn
    <2>2. Own(call'[o])
      <3>1. CASE o = r
        BY <3>1 DEF TypeOK
      <3>2. CASE o # r
        BY <3>2, OwnParts DEF TypeOK, CallsOwn
      <3> QED BY <3>1, <3>2
    <2> QED BY <2>2 DEF Own, Acceptable, MidSign, Switching
  <1>2. SlotOwned' /\ BrowsersOut' /\ OneBrowser' /\ TakenEmpty' /\ OnlyOwnRows'
    BY OwnParts DEF SlotOwned, BrowsersOut, OneBrowser, InBrowser, TakenEmpty, OnlyOwnRows
  <1> QED BY <1>1, <1>2, OwnPartsNext

(* A call that no query of the cache waits for.                            *)
LEMMA SettledOwn ==
    ASSUME TypeOK, NEW e, e.epoch = 0, e.rows = {},
           e.at \notin {"fetching", "assembled", "checked"}
    PROVE  Own(e)
  BY DEF Own, Acceptable, TypeOK

LEMMA AnswersOwn ==
    ASSUME TypeOK, NEW r \in Run, NEW ok \in BOOLEAN
    PROVE  Own([NoCall EXCEPT !.at = "answered", !.seq = call[r].seq,
                              !.gen = call[r].gen, !.shown = ok])
  BY SettledOwn DEF NoCall

LEMMA RunKeepsOwn ==
    ASSUME TypeOK, OwnInv, NEW r \in Run, RunStep(r)
    PROVE  OwnInv'
  <1>0. Own(call[r]) /\ call[r] \in Call /\ epoch \in Nat
    BY OwnParts DEF CallsOwn, TypeOK
  <1>1. ASSUME Starts(r) PROVE OwnInv'
    <2> DEFINE e == Started
    <2>1. Own(e)
      BY <1>1, <1>0, SettledOwn DEF Started, NoCall, Starts
    <2>2. UNCHANGED <<tenant, auth, epoch, slot, saving, signing>>
      BY <1>1 DEF Starts, flowVars
    <2>3. call' = [call EXCEPT ![r] = e]
      BY <1>1 DEF Starts
    <2> HIDE DEF e
    <2> QED BY <2>1, <2>2, <2>3, OwnReplaced
  <1>2. ASSUME Begins(r) PROVE OwnInv'
    <2> DEFINE e == [call[r] EXCEPT !.at = "fetching", !.gen = generation + 1,
                              !.tenant = tenant, !.epoch = epoch, !.mid = MidSign]
    <2>1. Own(e)
      BY <1>2, <1>0 DEF Own, Acceptable, Call, Begins
    <2>2. UNCHANGED <<tenant, auth, epoch, slot, saving, signing>>
      BY <1>2 DEF Begins, flowVars
    <2>3. call' = [call EXCEPT ![r] = e]
      BY <1>2 DEF Begins
    <2> HIDE DEF e
    <2> QED BY <2>1, <2>2, <2>3, OwnReplaced
  <1>3. ASSUME Fetches(r) PROVE OwnInv'
    <2> DEFINE e == [call[r] EXCEPT !.rows = @ \union {auth}]
    <2>1. Own(e)
      BY <1>3, <1>0 DEF Own, Acceptable, Call, Fetches
    <2>2. UNCHANGED <<tenant, auth, epoch, slot, saving, signing>>
      BY <1>3 DEF Fetches, flowVars
    <2>3. call' = [call EXCEPT ![r] = e]
      BY <1>3 DEF Fetches
    <2> HIDE DEF e
    <2> QED BY <2>1, <2>2, <2>3, OwnReplaced
  <1>4. ASSUME Assembles(r) PROVE OwnInv'
    <2> DEFINE e == [call[r] EXCEPT !.at = "assembled", !.previous = Baseline(call[r].tenant)]
    <2>1. Own(e)
      BY <1>4, <1>0 DEF Own, Acceptable, Call, Assembles
    <2>2. UNCHANGED <<tenant, auth, epoch, slot, saving, signing>>
      BY <1>4 DEF Assembles, flowVars
    <2>3. call' = [call EXCEPT ![r] = e]
      BY <1>4 DEF Assembles
    <2> HIDE DEF e
    <2> QED BY <2>1, <2>2, <2>3, OwnReplaced
  <1>5. ASSUME Checks(r) PROVE OwnInv'
    <2> DEFINE e == [call[r] EXCEPT !.at = "checked", !.previous = 0]
    <2>1. Own(e)
      BY <1>5, <1>0 DEF Own, Acceptable, Call, Checks
    <2>2. UNCHANGED <<tenant, auth, epoch, slot, saving, signing>>
      BY <1>5 DEF Checks, flowVars
    <2>3. ASSUME call' = [call EXCEPT ![r] = e] PROVE OwnInv'
      <3> HIDE DEF e
      <3> QED BY <2>1, <2>2, <2>3, OwnReplaced
    <2>4. ASSUME Answers(r, FALSE) PROVE OwnInv'
      BY <2>2, <2>4, AnswersOwn, OwnReplaced DEF Answers
    <2> QED BY <1>5, <2>3, <2>4 DEF Checks
  <1>6. ASSUME Writes(r) PROVE OwnInv'
    <2> DEFINE e == [call[r] EXCEPT !.at = "written"]
    <2>1. Own(e)
      BY <1>6, <1>0 DEF Own, Acceptable, Call, Writes
    <2>2. UNCHANGED <<tenant, auth, epoch, slot, saving, signing>>
      BY <1>6 DEF Writes, flowVars
    <2>3. call' = [call EXCEPT ![r] = e]
      BY <1>6 DEF Writes
    <2> HIDE DEF e
    <2> QED BY <2>1, <2>2, <2>3, OwnReplaced
  <1>7. ASSUME FetchFails(r) \/ Superseded(r) \/ SessionCleared(r) \/ WriteFails(r) \/ Remembers(r)
        PROVE  OwnInv'
    <2>1. UNCHANGED <<tenant, auth, epoch, slot, saving, signing>>
      BY <1>7 DEF FetchFails, Superseded, SessionCleared, WriteFails, Remembers, flowVars
    <2>2. PICK ok \in BOOLEAN : Answers(r, ok)
      BY <1>7 DEF FetchFails, Superseded, SessionCleared, WriteFails, Remembers
    <2> QED BY <2>1, <2>2, AnswersOwn, OwnReplaced DEF Answers
  <1>8. ASSUME Overtakes(r) \/ Paints(r) \/ ShowsError(r) PROVE OwnInv'
    <2>1. UNCHANGED <<tenant, auth, epoch, slot, saving, signing>>
      BY <1>8 DEF Overtakes, Paints, ShowsError, flowVars
    <2>2. PICK e \in {NoCall, Started} : call' = [call EXCEPT ![r] = e]
      BY <1>8 DEF Overtakes, Paints, ShowsError, RunsQueued
    <2>3. Own(e)
      BY <2>2, SettledOwn DEF NoCall, Started
    <2> QED BY <2>1, <2>2, <2>3, OwnReplaced
  <1>9. ASSUME Stores(r) PROVE OwnInv'
    <2>1. UNCHANGED <<tenant, auth, epoch, saving, signing>>
          /\ slot' = Cached(r) /\ call' = [call EXCEPT ![r] = Kept(r)]
      BY <1>9 DEF Stores, flowVars
    <2>2. Own(Kept(r))
      BY SettledOwn DEF Kept, NoCall
    <2>3. CallsOwn'
      <3>1. SUFFICES ASSUME NEW o \in Run PROVE Own(call[o])'
        BY DEF CallsOwn
      <3>2. Own(call'[o])
        <4>1. CASE o = r
          BY <2>1, <2>2, <4>1 DEF TypeOK
        <4>2. CASE o # r
          BY <2>1, <4>2, OwnParts DEF TypeOK, CallsOwn
        <4> QED BY <4>1, <4>2
      <3> QED BY <2>1, <3>2 DEF Own, Acceptable, MidSign, Switching
    <2>4. SlotOwned'
      BY <1>0, <2>1 DEF SlotOwned, Cached, Own
    <2>5. BrowsersOut' /\ OneBrowser'
      BY <2>1, OwnParts DEF BrowsersOut, OneBrowser, InBrowser
    <2>6. call[r].at = "checked" /\ call[r].epoch = epoch
      BY <1>9 DEF Stores
    <2>7. ~call[r].mid => ~MidSign
      BY <1>0, <2>6 DEF Own, Acceptable
    <2>8. TakenEmpty'
      BY <2>1, <2>7 DEF TakenEmpty, Cached, MidSign
    <2>9. OnlyOwnRows'
      <3>1. ~call[r].mid /\ ~Switching => call[r].tenant = tenant /\ call[r].rows = {auth}
        BY <1>0, <2>6 DEF Own, Acceptable
      <3> QED BY <2>1, <3>1 DEF OnlyOwnRows, Cached, Switching
    <2> QED BY <2>3, <2>4, <2>5, <2>8, <2>9, OwnPartsNext
  <1> QED BY <1>1, <1>2, <1>3, <1>4, <1>5, <1>6, <1>7, <1>8, <1>9 DEF RunStep

(* What the calls own survives a step that moves none of them, the session *)
(* or the grant.                                                           *)
LEMMA CallsOwnKept ==
    ASSUME OwnInv, UNCHANGED <<call, tenant, auth, epoch>>,
           MidSign' => MidSign, Switching => Switching'
    PROVE  CallsOwn'
  BY OwnParts DEF CallsOwn, Own, Acceptable

(* Once the epoch has moved, the cache accepts none of the calls there are. *)
LEMMA EpochEnds ==
    ASSUME TypeOK, OwnInv, UNCHANGED call, epoch' = epoch + 1
    PROVE  CallsOwn'
  <1>1. SUFFICES ASSUME NEW r \in Run PROVE Own(call[r])'
    BY DEF CallsOwn
  <1>2. Own(call[r]) /\ epoch \in Nat /\ call[r].epoch \in Nat
    BY OwnParts DEF CallsOwn, TypeOK, Call
  <1>3. call[r].epoch <= epoch' /\ call[r].epoch # epoch'
    BY <1>2 DEF Own
  <1> QED BY <1>2, <1>3 DEF Own, Acceptable

LEMMA ReaderKeepsOwn ==
    ASSUME TypeOK, OwnInv, NEW v \in Reader, TakesHandle(v) \/ OffersMemo(v)
    PROVE  OwnInv'
  <1>1. UNCHANGED <<call, tenant, auth, epoch, saving, signing>>
    BY DEF TakesHandle, OffersMemo, flowVars
  <1>2. slot'.gen = slot.gen /\ slot'.mid = slot.mid /\ slot'.rows = slot.rows
        /\ slot'.tenant = slot.tenant
    BY DEF TakesHandle, OffersMemo, TypeOK, Result
  <1>3. CallsOwn'
    BY <1>1, CallsOwnKept DEF MidSign, Switching
  <1>4. SlotOwned' /\ BrowsersOut' /\ OneBrowser' /\ TakenEmpty' /\ OnlyOwnRows'
    BY <1>1, <1>2, OwnParts DEF SlotOwned, BrowsersOut, OneBrowser, InBrowser, TakenEmpty,
       OnlyOwnRows
  <1> QED BY <1>3, <1>4, OwnPartsNext

LEMMA OthersKeepOwn ==
    ASSUME OwnInv, Queues \/ Waits \/ UNCHANGED vars
    PROVE  OwnInv'
  <1>1. UNCHANGED <<call, tenant, auth, epoch, saving, signing, slot>>
    BY DEF Queues, Waits, vars, flowVars
  <1>2. CallsOwn'
    BY <1>1, CallsOwnKept DEF MidSign, Switching
  <1>3. SlotOwned' /\ BrowsersOut' /\ OneBrowser' /\ TakenEmpty' /\ OnlyOwnRows'
    BY <1>1, OwnParts DEF SlotOwned, BrowsersOut, OneBrowser, InBrowser, TakenEmpty, OnlyOwnRows
  <1> QED BY <1>2, <1>3, OwnPartsNext

LEMMA SaverKeepsOwn ==
    ASSUME TypeOK, OwnInv, NEW s \in Saver, SaverStep(s)
    PROVE  OwnInv'
  <1>0. saving \in [Saver -> SavePlaces] /\ signing \in [Signer -> SignPlaces]
    BY DEF TypeOK
  <1>1. ASSUME Publish(s) PROVE OwnInv'
    <2>1. UNCHANGED <<call, auth, epoch, slot, signing>> /\ saving'[s] = "published"
      BY <1>0, <1>1 DEF Publish, SaveGoes
    <2>2. CallsOwn'
      BY <2>1, OwnParts DEF CallsOwn, Own, Acceptable, MidSign, Switching
    <2>3. OnlyOwnRows'
      BY <2>1 DEF OnlyOwnRows
    <2>4. SlotOwned' /\ BrowsersOut' /\ OneBrowser' /\ TakenEmpty'
      BY <2>1, OwnParts DEF SlotOwned, BrowsersOut, OneBrowser, InBrowser, TakenEmpty
    <2> QED BY <2>2, <2>3, <2>4, OwnPartsNext
  <1>2. ASSUME ApplySettings(s) PROVE OwnInv'
    <2>1. UNCHANGED <<call, epoch, slot>> /\ saving'[s] = "applied"
          /\ auth'.operator = Nobody /\ \A g \in Signer : signing'[g] = Ended(signing[g])
      BY <1>0, <1>2 DEF ApplySettings
    <2>2. MidSign' <=> MidSign
      BY <2>1 DEF MidSign, Ended
    <2>3. CallsOwn'
      BY <2>1, <2>2, OwnParts DEF CallsOwn, Own, Acceptable, Switching
    <2>4. OnlyOwnRows'
      BY <2>1 DEF OnlyOwnRows
    <2>5. SlotOwned' /\ BrowsersOut' /\ OneBrowser' /\ TakenEmpty'
      BY <2>1, OwnParts DEF SlotOwned, BrowsersOut, OneBrowser, InBrowser, TakenEmpty, Ended
    <2> QED BY <2>3, <2>4, <2>5, OwnPartsNext
  <1>3. ASSUME SaveBumps(s) PROVE OwnInv'
    <2>1. UNCHANGED <<call, auth, slot, signing>> /\ epoch' = epoch + 1 /\ saving'[s] = "bumped"
      BY <1>0, <1>3 DEF SaveBumps, SaveGoes, BumpsEpoch
    <2>2. CallsOwn'
      BY <2>1, EpochEnds
    <2>3. OnlyOwnRows'
      BY <2>1 DEF OnlyOwnRows
    <2>4. SlotOwned' /\ BrowsersOut' /\ OneBrowser' /\ TakenEmpty'
      BY <2>1, OwnParts DEF SlotOwned, BrowsersOut, OneBrowser, InBrowser, TakenEmpty
    <2> QED BY <2>2, <2>3, <2>4, OwnPartsNext
  <1>4. ASSUME SaveTakes(s) PROVE OwnInv'
    <2>1. UNCHANGED <<call, tenant, auth, epoch, signing>> /\ slot' = NoResult
          /\ saving[s] = "bumped" /\ saving' = [saving EXCEPT ![s] = "taken"]
      BY <1>4 DEF SaveTakes, SaveGoes, TakesResult
    <2>2. Switching => Switching'
      BY <1>0, <2>1 DEF Switching
    <2>3. CallsOwn'
      BY <2>1, <2>2, CallsOwnKept DEF MidSign
    <2>4. OnlyOwnRows' /\ SlotOwned' /\ TakenEmpty'
      BY <2>1 DEF OnlyOwnRows, SlotOwned, TakenEmpty, NoResult
    <2>5. BrowsersOut' /\ OneBrowser'
      BY <2>1, OwnParts DEF BrowsersOut, OneBrowser, InBrowser
    <2> QED BY <2>3, <2>4, <2>5, OwnPartsNext
  <1>5. ASSUME SaveReturns(s) PROVE OwnInv'
    <2>1. UNCHANGED <<call, tenant, auth, epoch, signing, slot>>
          /\ saving[s] = "taken" /\ saving' = [saving EXCEPT ![s] = "done"]
      BY <1>5 DEF SaveReturns, SaveGoes, ClearSession, ShowsFailure
    <2>2. Switching => Switching'
      BY <1>0, <2>1 DEF Switching
    <2>3. CallsOwn'
      BY <2>1, <2>2, CallsOwnKept DEF MidSign
    <2>4. OnlyOwnRows'
      <3>1. (\A o \in Saver : saving'[o] \in {"idle", "taken", "done"})
              => \A o \in Saver : saving[o] \in {"idle", "taken", "done"}
        BY <1>0, <2>1
      <3> QED BY <2>1, <3>1, OwnParts DEF OnlyOwnRows
    <2>5. SlotOwned' /\ BrowsersOut' /\ OneBrowser' /\ TakenEmpty'
      BY <2>1, OwnParts DEF SlotOwned, BrowsersOut, OneBrowser, InBrowser, TakenEmpty
    <2> QED BY <2>3, <2>4, <2>5, OwnPartsNext
  <1> QED BY <1>1, <1>2, <1>3, <1>4, <1>5 DEF SaverStep

(* A grant dropped by a flow that has emptied the cache.                   *)
LEMMA LeavingKeepsOwn ==
    ASSUME TypeOK, OwnInv, NEW g \in Signer, signing[g] = "taken", Leaves, UNCHANGED saving,
           NEW next, next = "left" \/ next = Browse(g),
           signing'[g] = next,
           \A o \in Signer \ {g} : signing'[o] \in {signing[o], Ended(signing[o])}
    PROVE  OwnInv'
  <1>1. UNCHANGED <<call, tenant, epoch, slot>> /\ auth'.operator = Nobody
    BY DEF Leaves, TypeOK, Source
  <1>2. MidSign
    BY DEF MidSign
  <1>3. CallsOwn'
    BY <1>1, <1>2, OwnParts DEF CallsOwn, Own, Acceptable
  <1>4. SlotOwned' /\ BrowsersOut'
    BY <1>1, OwnParts DEF SlotOwned, BrowsersOut
  <1>5. ASSUME NEW o \in Signer \ {g}
        PROVE  /\ InBrowser(o)' <=> InBrowser(o)
               /\ (signing'[o] = "taken" <=> signing[o] = "taken")
               /\ (signing'[o] = "bumped" <=> signing[o] = "bumped")
    BY DEF InBrowser, Ended
  <1>6. InBrowser(g)' => \A o \in Signer \ {g} : ~InBrowser(o)
    BY DEF InBrowser, Browse
  <1>7. OneBrowser'
    BY <1>5, <1>6, OwnParts DEF OneBrowser
  <1>8. slot.gen = 0 \/ slot.mid
    BY OwnParts DEF TakenEmpty
  <1>9. TakenEmpty' /\ OnlyOwnRows'
    BY <1>1, <1>8 DEF TakenEmpty, OnlyOwnRows
  <1> QED BY <1>3, <1>4, <1>7, <1>9, OwnPartsNext

LEMMA SignerKeepsOwn ==
    ASSUME TypeOK, OwnInv, NEW g \in Signer, SignerStep(g)
    PROVE  OwnInv'
  <1>0. signing \in [Signer -> SignPlaces]
    BY DEF TypeOK
  <1>1. ASSUME SignBumps(g) PROVE OwnInv'
    <2>1. UNCHANGED <<call, tenant, auth, slot, saving>> /\ epoch' = epoch + 1
          /\ signing' = [signing EXCEPT ![g] = "bumped"]
      BY <1>1 DEF SignBumps, SignGoes, BumpsEpoch
    <2>2. CallsOwn'
      BY <2>1, EpochEnds
    <2>3. OnlyOwnRows'
      BY <1>0, <2>1 DEF OnlyOwnRows
    <2>4. SlotOwned' /\ BrowsersOut' /\ OneBrowser' /\ TakenEmpty'
      BY <1>0, <2>1, OwnParts DEF SlotOwned, BrowsersOut, OneBrowser, InBrowser, TakenEmpty
    <2> QED BY <2>2, <2>3, <2>4, OwnPartsNext
  <1>2. ASSUME SignTakes(g) PROVE OwnInv'
    <2>1. UNCHANGED <<call, tenant, auth, epoch, saving>> /\ slot' = NoResult
          /\ signing[g] = "bumped" /\ signing' = [signing EXCEPT ![g] = "taken"]
      BY <1>2 DEF SignTakes, SignGoes, TakesResult
    <2>2. MidSign
      BY <2>1 DEF MidSign
    <2>3. CallsOwn'
      BY <2>1, <2>2, CallsOwnKept DEF Switching
    <2>4. OnlyOwnRows' /\ SlotOwned' /\ TakenEmpty'
      BY <2>1 DEF OnlyOwnRows, SlotOwned, TakenEmpty, NoResult
    <2>5. BrowsersOut' /\ OneBrowser'
      BY <1>0, <2>1, OwnParts DEF BrowsersOut, OneBrowser, InBrowser
    <2> QED BY <2>3, <2>4, <2>5, OwnPartsNext
  <1>3. ASSUME Logout(g) PROVE OwnInv'
    <2>1. PICK next \in {"left", Browse(g)} :
             signing' = [o \in Signer |-> IF o = g THEN next ELSE Ended(signing[o])]
      BY <1>3 DEF Logout
    <2>2. signing'[g] = next /\ \A o \in Signer \ {g} : signing'[o] = Ended(signing[o])
      BY <2>1
    <2> QED BY <1>3, <2>2, LeavingKeepsOwn DEF Logout
  <1>4. ASSUME FindsNone(g) PROVE OwnInv'
    <2>1. signing'[g] = Browse(g) /\ \A o \in Signer \ {g} : signing'[o] = signing[o]
      BY <1>0, <1>4 DEF FindsNone, SignGoes
    <2> QED BY <1>4, <2>1, LeavingKeepsOwn DEF FindsNone, SignGoes
  <1>5. ASSUME Login(g) PROVE OwnInv'
    <2>1. UNCHANGED <<call, tenant, epoch, slot, saving>> /\ auth.operator = Nobody
          /\ signing[g] = "browsing" /\ signing' = [signing EXCEPT ![g] = "entered"]
      BY <1>5, OwnParts DEF Login, SignGoes, BrowsersOut
    <2>2. \A o \in Signer \ {g} : ~InBrowser(o)
      BY <2>1, OwnParts DEF OneBrowser, InBrowser
    <2>3. \A o \in Signer : signing'[o] # "browsing" /\ ~InBrowser(o)'
      BY <1>0, <2>1, <2>2 DEF InBrowser
    <2>4. MidSign' <=> MidSign
      BY <1>0, <2>1 DEF MidSign
    <2>5. ASSUME NEW r \in Run PROVE Own(call[r])'
      <3>1. Own(call[r])
        BY OwnParts DEF CallsOwn
      <3>2. call[r].rows \subseteq {auth} => call[r].rows = {}
        BY <2>1, <3>1 DEF Own
      <3> QED BY <2>1, <2>4, <3>1, <3>2 DEF Own, Acceptable, Switching
    <2>6. SlotOwned' /\ BrowsersOut' /\ OneBrowser'
      BY <2>1, <2>3, OwnParts DEF SlotOwned, BrowsersOut, OneBrowser
    <2>7. TakenEmpty'
      BY <1>0, <2>1, OwnParts DEF TakenEmpty
    <2>8. slot.rows # {auth}
      BY <2>1, OwnParts DEF SlotOwned
    <2>9. OnlyOwnRows'
      <3>1. (\A o \in Signer : signing'[o] # "bumped") => \A o \in Signer : signing[o] # "bumped"
        BY <1>0, <2>1
      <3> QED BY <2>1, <2>8, <3>1, OwnParts DEF OnlyOwnRows
    <2> QED BY <2>5, <2>6, <2>7, <2>9, OwnPartsNext DEF CallsOwn
  <1>6. ASSUME SignReturns(g) \/ SignFails(g) PROVE OwnInv'
    <2>1. UNCHANGED <<call, tenant, auth, epoch, slot, saving>>
          /\ signing' = [signing EXCEPT ![g] = "done"] /\ signing[g] # "bumped"
      BY <1>6 DEF SignReturns, SignFails, SignGoes, ClearSession, ShowsFailure
    <2>2. MidSign' => MidSign
      BY <1>0, <2>1 DEF MidSign
    <2>3. CallsOwn'
      BY <2>1, <2>2, CallsOwnKept DEF Switching
    <2>4. OnlyOwnRows'
      <3>1. (\A o \in Signer : signing'[o] # "bumped") => \A o \in Signer : signing[o] # "bumped"
        BY <1>0, <2>1
      <3> QED BY <2>1, <3>1, OwnParts DEF OnlyOwnRows
    <2>5. SlotOwned' /\ BrowsersOut' /\ OneBrowser' /\ TakenEmpty'
      BY <1>0, <2>1, OwnParts DEF SlotOwned, BrowsersOut, OneBrowser, InBrowser, TakenEmpty
    <2> QED BY <2>3, <2>4, <2>5, OwnPartsNext
  <1> QED BY <1>1, <1>2, <1>3, <1>4, <1>5, <1>6 DEF SignerStep

LEMMA OwnInit == Init => OwnInv
  BY DEF Init, OwnInv, Own, Acceptable, NoCall, NoResult, InBrowser, OnlyOwnRows

LEMMA OwnStep == TypeOK /\ OwnInv /\ [Next]_vars => OwnInv'
  BY RunKeepsOwn, ReaderKeepsOwn, OthersKeepOwn, SaverKeepsOwn, SignerKeepsOwn DEF Next

(* While no session is being ended, every cached row was fetched from the  *)
(* present tenant by the present operator, unless its run began between    *)
(* the two halves of a sign-out; for any number of overlapping runs, saves *)
(* and sign-ins.                                                           *)
THEOREM CacheHoldsOwnRows == Spec => []OnlyOwnRows
  <1>1. OwnInv => OnlyOwnRows
    BY DEF OwnInv
  <1> QED BY <1>1, OwnInit, OwnStep, TypeCorrect, PTL DEF Spec

(* The result on screen is readable.  Unless runs overlap, one run at a     *)
(* time is in flight, and what it has stored is either behind its reply or  *)
(* gone with a command that is still to return: such a command clears the   *)
(* screen and the stamps when it succeeds, or strands the table.            *)
Owing ==
    \/ \E s \in Saver : saving[s] \notin {"idle", "done"}
    \/ \E g \in Signer : signing[g] \notin {"idle", "bumped", "done"}

(* No command stands between the tenant and what is cached for it.          *)
MidSwitch == \E s \in Saver : saving[s] \in {"published", "applied", "bumped"}

SlotFits ==
    /\ slot.gen # 0 /\ ~MidSwitch => slot.tenant = tenant
    /\ \A r \in Run :
          /\ call[r].epoch <= epoch
          /\ call[r].at \in {"fetching", "assembled", "checked"} /\ call[r].epoch = epoch /\ ~Switching
                => call[r].tenant = tenant

OneAtATime == ~overlapped => \A r, o \in Run : InFlight(r) /\ InFlight(o) => r = o

Unstored(c) == c.at \in {"fetching", "assembled", "checked"} \/ (c.at = "answered" /\ ~c.shown)
Replying(c) == c.at \in {"stored", "written"} \/ (c.at = "answered" /\ c.shown)

Follows(c) ==
    /\ c.at \notin {"idle", "invoked"} => c.gen = generation /\ c.gen # 0
    /\ Unstored(c) => c.gen # slot.gen
    /\ c.at # "idle" /\ c.seq # seq => painted = 0
    /\ Replying(c) /\ c.seq = seq => c.gen = slot.gen \/ Owing \/ stranded
RunsFollow == ~overlapped => \A r \in Run : Follows(call[r])

ScreenFits == painted # 0 /\ ~stranded /\ ~overlapped => Behind \/ Owing

ScreenInv == SlotFits /\ OneAtATime /\ RunsFollow /\ ScreenFits

FlowsRest == UNCHANGED <<tenant, epoch, saving, signing>>
Fit(c) ==
    /\ c.epoch <= epoch
    /\ c.at \in {"fetching", "assembled", "checked"} /\ c.epoch = epoch /\ ~Switching => c.tenant = tenant

LEMMA SlotFitsParts ==
    /\ SlotFits <=> (slot.gen # 0 /\ ~MidSwitch => slot.tenant = tenant) /\ \A r \in Run : Fit(call[r])
    /\ SlotFits' <=> (slot.gen # 0 /\ ~MidSwitch => slot.tenant = tenant)' /\ \A r \in Run : Fit(call[r])'
BY DEF SlotFits, Fit

LEMMA FlowsResting ==
    ASSUME FlowsRest
    PROVE  (Owing' <=> Owing) /\ (MidSwitch' <=> MidSwitch) /\ (Switching' <=> Switching)
BY DEF FlowsRest, Owing, MidSwitch, Switching

(* A run that goes on without storing, and without touching the screen.     *)
LEMMA ProgressKeeps ==
    ASSUME TypeOK, ScreenInv, NEW r \in Run, FlowsRest,
           UNCHANGED <<generation, slot, seq, painted, overlapped, stranded>>,
           \A o \in Run \ {r} : call'[o] = call[o],
           InFlight(r), call'[r].at # "idle",
           Fit(call[r])', ~overlapped => Follows(call[r])',
           call[r].at \in {"stored", "written", "answered"} =>
               call'[r].at \in {"stored", "written", "answered"} /\ call'[r].gen = call[r].gen
    PROVE  ScreenInv'
<1>1. (Owing' <=> Owing) /\ (MidSwitch' <=> MidSwitch) /\ (Switching' <=> Switching)
  BY FlowsResting
<1>2. SlotFits'
  <2>1. \A o \in Run \ {r} : Fit(call[o])'
    BY <1>1, SlotFitsParts DEF ScreenInv, Fit, FlowsRest
  <2>2. QED BY <1>1, <2>1, SlotFitsParts DEF ScreenInv, FlowsRest
<1>3. OneAtATime'
  BY DEF ScreenInv, OneAtATime, InFlight
<1>4. RunsFollow'
  BY <1>1 DEF ScreenInv, RunsFollow, Follows, Unstored, Replying
<1>5. ScreenFits'
  <2>1. Behind => Behind'
    BY DEF Behind, FlowsRest
  <2>2. QED BY <1>1, <2>1 DEF ScreenInv, ScreenFits
<1>6. QED BY <1>2, <1>3, <1>4, <1>5 DEF ScreenInv

LEMMA AnswersFields ==
    ASSUME TypeOK, NEW r \in Run, NEW ok \in BOOLEAN, Answers(r, ok)
    PROVE  /\ \A o \in Run \ {r} : call'[o] = call[o]
           /\ call'[r].at = "answered" /\ call'[r].seq = call[r].seq /\ call'[r].gen = call[r].gen
           /\ call'[r].epoch = 0 /\ call'[r].shown = ok
BY DEF Answers, NoCall, TypeOK

LEMMA AnswersScreen ==
    ASSUME TypeOK, ScreenInv, NEW r \in Run, NEW ok \in BOOLEAN, Answers(r, ok), FlowsRest,
           UNCHANGED <<generation, slot, seq, painted, overlapped, stranded>>,
           call[r].at \notin {"idle", "invoked", "answered"},
           ~overlapped => (ok <=> call[r].at \in {"stored", "written"})
    PROVE  ScreenInv'
<1>1. /\ \A o \in Run \ {r} : call'[o] = call[o]
      /\ call'[r].at = "answered" /\ call'[r].seq = call[r].seq /\ call'[r].gen = call[r].gen
      /\ call'[r].epoch = 0 /\ call'[r].shown = ok
  BY AnswersFields
<1>2. epoch \in Nat /\ call[r] \in Call
  BY DEF TypeOK
<1>3. Fit(call[r])'
  BY <1>1, <1>2 DEF Fit, FlowsRest
<1>4. ~overlapped => Follows(call[r])'
  <2>1. ~overlapped => Follows(call[r])
    BY DEF ScreenInv, RunsFollow
  <2>2. call[r].at \in {"fetching", "assembled", "checked", "stored", "written"}
    BY <1>2 DEF Call, Places
  <2>3. QED BY <1>1, <2>1, <2>2, FlowsResting DEF Follows, Unstored, Replying
<1>5. QED BY <1>1, <1>3, <1>4, ProgressKeeps DEF InFlight

LEMMA ProgressScreen ==
    ASSUME TypeOK, ScreenInv, NEW r \in Run,
           \/ Fetches(r) \/ FetchFails(r) \/ Assembles(r) \/ Checks(r) \/ Superseded(r)
           \/ SessionCleared(r) \/ Writes(r) \/ WriteFails(r) \/ Remembers(r)
    PROVE  ScreenInv'
<1>1. FlowsRest /\ UNCHANGED <<generation, slot, seq, painted, overlapped, stranded>>
  BY DEF FlowsRest, Fetches, FetchFails, Assembles, Checks, Superseded, SessionCleared, Writes,
     WriteFails, Remembers, flowVars, screenVars
<1>2. Fit(call[r]) /\ (~overlapped => Follows(call[r])) /\ call \in [Run -> Call]
  BY SlotFitsParts DEF ScreenInv, RunsFollow, TypeOK
<1>3. ASSUME NEW at \in Places, NEW from \in Places, call[r].at = from, call'[r].at = at,
             \A o \in Run \ {r} : call'[o] = call[o],
             call'[r].seq = call[r].seq, call'[r].gen = call[r].gen, call'[r].epoch = call[r].epoch,
             call'[r].tenant = call[r].tenant,
             \/ {from, at} \subseteq {"fetching", "assembled", "checked"}
             \/ {from, at} \subseteq {"stored", "written"}
      PROVE  ScreenInv'
  <2>1. Fit(call[r])'
    BY <1>1, <1>2, <1>3, FlowsResting DEF Fit, FlowsRest
  <2>2. ~overlapped => Follows(call[r])'
    BY <1>1, <1>2, <1>3, FlowsResting DEF Follows, Unstored, Replying
  <2>3. QED BY <1>1, <1>3, <2>1, <2>2, ProgressKeeps DEF InFlight
<1>4. CASE Fetches(r)
  BY <1>2, <1>3, <1>4 DEF Fetches, Call, Places
<1>5. CASE Assembles(r)
  BY <1>2, <1>3, <1>5 DEF Assembles, Call, Places
<1>6. CASE Writes(r)
  BY <1>2, <1>3, <1>6 DEF Writes, Call, Places
<1>7. CASE FetchFails(r)
  BY <1>1, <1>7, AnswersScreen DEF FetchFails
<1>8. CASE Checks(r)
  <2>1. CASE call[r].tenant = tenant
    BY <1>2, <1>3, <1>8, <2>1, ZenonT(60) DEF Checks, Call, Places
  <2>2. CASE call[r].tenant # tenant
    BY <1>1, <1>8, <2>2, AnswersScreen DEF Checks
  <2>3. QED BY <2>1, <2>2
<1>9. CASE Superseded(r)
  <2>1. overlapped
    BY <1>2, <1>9 DEF Superseded, Follows
  <2>2. QED BY <1>1, <1>9, <2>1, AnswersScreen DEF Superseded
<1>10. CASE SessionCleared(r)
  BY <1>1, <1>10, AnswersScreen DEF SessionCleared
<1>11. CASE WriteFails(r)
  BY <1>1, <1>11, AnswersScreen DEF WriteFails
<1>12. CASE Remembers(r)
  BY <1>1, <1>12, AnswersScreen DEF Remembers
<1>13. QED BY <1>4, <1>5, <1>6, <1>7, <1>8, <1>9, <1>10, <1>11, <1>12

LEMMA StartsScreen ==
    ASSUME TypeOK, ScreenInv, NEW r \in Run, Starts(r)
    PROVE  ScreenInv'
<1>1. /\ \A o \in Run \ {r} : call'[o] = call[o]
      /\ call'[r].at = "invoked" /\ call'[r].epoch = 0 /\ call'[r].seq = seq'
  BY StartedIsCall DEF Starts, Started, NoCall, TypeOK
<1>2. /\ FlowsRest /\ UNCHANGED <<generation, slot, painted, stranded>>
      /\ overlapped' = (overlapped \/ \E o \in Run : InFlight(o))
      /\ call[r].at = "idle"
  BY DEF FlowsRest, Starts, flowVars, InFlight
<1>3. SlotFits'
  <2>1. \A o \in Run : Fit(call[o])'
    BY <1>1, <1>2, SlotFitsParts, FlowsResting DEF ScreenInv, Fit, FlowsRest, TypeOK
  <2>2. QED BY <1>2, <2>1, SlotFitsParts, FlowsResting DEF ScreenInv, FlowsRest
<1>4. ~overlapped' => ~overlapped /\ \A o \in Run \ {r} : call'[o].at = "idle"
  BY <1>1, <1>2 DEF InFlight
<1>5. OneAtATime'
  BY <1>4 DEF OneAtATime, InFlight
<1>6. RunsFollow'
  <2> SUFFICES ASSUME ~overlapped', NEW o \in Run PROVE Follows(call[o])'
    BY DEF RunsFollow
  <2>1. CASE o = r
    BY <1>1, <2>1 DEF Follows, Unstored, Replying
  <2>2. CASE o # r
    BY <1>4, <2>2 DEF Follows, Unstored, Replying
  <2>3. QED BY <2>1, <2>2
<1>7. ScreenFits'
  <2>1. Behind => Behind'
    BY <1>1, <1>2 DEF Behind, FlowsRest
  <2>2. QED BY <1>2, <1>4, <2>1, FlowsResting DEF ScreenInv, ScreenFits
<1>8. QED BY <1>3, <1>5, <1>6, <1>7 DEF ScreenInv

LEMMA BeginsScreen ==
    ASSUME TypeOK, ScreenInv, NEW r \in Run, Begins(r)
    PROVE  ScreenInv'
<1>1. /\ \A o \in Run \ {r} : call'[o] = call[o]
      /\ call'[r].at = "fetching" /\ call'[r].epoch = epoch /\ call'[r].tenant = tenant
      /\ call'[r].seq = call[r].seq /\ call'[r].gen = generation'
      /\ call[r].at = "invoked"
  <2>1. PICK b \in BOOLEAN : b = MidSign
    BY MidSignIsBoolean
  <2>2. call' = [call EXCEPT ![r] = [@ EXCEPT !.at = "fetching", !.gen = generation + 1,
                               !.tenant = tenant, !.epoch = epoch, !.mid = b]]
    BY <2>1 DEF Begins
  <2>3. call \in [Run -> Call] /\ call[r].at = "invoked" /\ generation' = generation + 1
    BY DEF Begins, TypeOK
  <2>4. QED BY <2>2, <2>3 DEF Call
<1>2. /\ FlowsRest /\ UNCHANGED <<slot, seq, painted, overlapped, stranded>>
      /\ generation' = generation + 1 /\ generation \in Nat
      /\ slot.gen \in Nat /\ slot.gen <= generation
  BY DEF FlowsRest, Begins, flowVars, screenVars, TypeOK, Result
<1>3. SlotFits'
  <2>1. \A o \in Run : Fit(call[o])'
    BY <1>1, <1>2, SlotFitsParts, FlowsResting DEF ScreenInv, Fit, FlowsRest, TypeOK
  <2>2. QED BY <1>2, <2>1, SlotFitsParts, FlowsResting DEF ScreenInv, FlowsRest
<1>4. OneAtATime'
  BY <1>1, <1>2 DEF ScreenInv, OneAtATime, InFlight
<1>5. RunsFollow'
  <2> SUFFICES ASSUME ~overlapped, NEW o \in Run PROVE Follows(call[o])'
    BY <1>2 DEF RunsFollow
  <2>1. Follows(call[o])
    BY DEF ScreenInv, RunsFollow
  <2>2. CASE o = r
    BY <1>1, <1>2, <2>1, <2>2 DEF Follows, Unstored, Replying
  <2>3. CASE o # r
    <3>1. call'[o].at = "idle"
      BY <1>1, <2>3 DEF ScreenInv, OneAtATime, InFlight
    <3>2. QED BY <3>1 DEF Follows, Unstored, Replying
  <2>4. QED BY <2>2, <2>3
<1>6. ScreenFits'
  <2>1. Behind => Behind'
    BY <1>1, <1>2 DEF Behind, FlowsRest
  <2>2. QED BY <1>2, <2>1, FlowsResting DEF ScreenInv, ScreenFits
<1>7. QED BY <1>3, <1>4, <1>5, <1>6 DEF ScreenInv

LEMMA StoresScreen ==
    ASSUME TypeOK, ScreenInv, NEW r \in Run, Stores(r)
    PROVE  ScreenInv'
<1>1. /\ \A o \in Run \ {r} : call'[o] = call[o]
      /\ call'[r].at = "stored" /\ call'[r].epoch = 0
      /\ call'[r].seq = call[r].seq /\ call'[r].gen = call[r].gen
      /\ call[r].at = "checked" /\ call[r].epoch = epoch
  BY DEF Stores, Kept, NoCall, TypeOK
<1>2. /\ FlowsRest /\ UNCHANGED <<generation, seq, painted, overlapped, stranded>>
      /\ slot'.gen = call[r].gen /\ slot'.tenant = call[r].tenant
  BY DEF FlowsRest, Stores, Cached, flowVars, screenVars
<1>3. Switching => MidSwitch /\ Owing
  BY DEF Switching, MidSwitch, Owing
<1>4. Switching \/ call[r].tenant = tenant
  BY <1>1, SlotFitsParts DEF ScreenInv, Fit
<1>5. SlotFits'
  <2>1. \A o \in Run : Fit(call[o])'
    BY <1>1, <1>2, SlotFitsParts, FlowsResting DEF ScreenInv, Fit, FlowsRest, TypeOK
  <2>2. slot'.gen # 0 /\ ~MidSwitch' => slot'.tenant = tenant'
    BY <1>2, <1>3, <1>4, FlowsResting DEF FlowsRest
  <2>3. QED BY <2>1, <2>2, SlotFitsParts
<1>6. OneAtATime'
  BY <1>1, <1>2 DEF ScreenInv, OneAtATime, InFlight
<1>7. RunsFollow'
  <2> SUFFICES ASSUME ~overlapped, NEW o \in Run PROVE Follows(call[o])'
    BY <1>2 DEF RunsFollow
  <2>1. Follows(call[o])
    BY DEF ScreenInv, RunsFollow
  <2>2. CASE o = r
    BY <1>1, <1>2, <2>1, <2>2 DEF Follows, Unstored, Replying
  <2>3. CASE o # r
    <3>1. call'[o].at = "idle"
      BY <1>1, <2>3 DEF ScreenInv, OneAtATime, InFlight
    <3>2. QED BY <3>1 DEF Follows, Unstored, Replying
  <2>4. QED BY <2>2, <2>3
<1>8. ScreenFits'
  <2> SUFFICES ASSUME ~overlapped PROVE Behind' \/ Owing'
    BY <1>2 DEF ScreenFits
  <2>1. call[r].gen # 0
    BY <1>1 DEF ScreenInv, RunsFollow, Follows
  <2>2. ~Switching => Behind'
    BY <1>1, <1>2, <1>4, <2>1 DEF Behind, FlowsRest
  <2>3. QED BY <1>2, <1>3, <2>2, FlowsResting
<1>9. QED BY <1>5, <1>6, <1>7, <1>8 DEF ScreenInv

LEMMA ReplyScreen ==
    ASSUME TypeOK, ScreenInv, NEW r \in Run, Overtakes(r) \/ Paints(r) \/ ShowsError(r)
    PROVE  ScreenInv'
<1>1. /\ FlowsRest /\ UNCHANGED <<generation, slot, overlapped>>
      /\ call[r].at = "answered" /\ RunsQueued(r)
  BY DEF FlowsRest, Overtakes, Paints, ShowsError, flowVars
<1>2. /\ \A o \in Run \ {r} : call'[o] = call[o]
      /\ call'[r].at \in {"idle", "invoked"} /\ call'[r].epoch = 0
      /\ call'[r].at = "invoked" => call'[r].seq = seq'
  <2>1. Started.at = "invoked" /\ Started.epoch = 0 /\ Started.seq = seq + 1
    BY StartedIsCall DEF Started, NoCall
  <2>2. QED BY <1>1, <2>1 DEF RunsQueued, NoCall, TypeOK
<1>3. SlotFits'
  <2>1. \A o \in Run : Fit(call[o])'
    BY <1>1, <1>2, SlotFitsParts, FlowsResting DEF ScreenInv, Fit, FlowsRest, TypeOK
  <2>2. QED BY <1>1, <2>1, SlotFitsParts, FlowsResting DEF ScreenInv, FlowsRest
<1>4. OneAtATime'
  BY <1>1, <1>2 DEF ScreenInv, OneAtATime, InFlight
<1>5. ~overlapped => \A o \in Run \ {r} : call[o].at = "idle"
  BY <1>1 DEF ScreenInv, OneAtATime, InFlight
<1>6. RunsFollow'
  <2> SUFFICES ASSUME ~overlapped, NEW o \in Run PROVE Follows(call[o])'
    BY <1>1 DEF RunsFollow
  <2>1. call'[o].at \in {"idle", "invoked"} /\ (call'[o].at = "invoked" => call'[o].seq = seq')
    BY <1>2, <1>5
  <2>2. QED BY <2>1 DEF Follows, Unstored, Replying
<1>7. ScreenFits'
  <2> SUFFICES ASSUME ~overlapped, painted' # 0, ~stranded' PROVE Behind' \/ Owing'
    BY <1>1 DEF ScreenFits
  <2>1. Follows(call[r])
    BY DEF ScreenInv, RunsFollow
  <2>2. Behind => slot.gen # 0 /\ slot.tenant = tenant /\ (slot.gen = painted \/ slot.gen = call[r].gen)
    BY <1>5 DEF Behind
  <2>3. slot.gen # 0 /\ ~Owing => slot.tenant = tenant
    BY DEF ScreenInv, SlotFits, MidSwitch, Owing
  <2>4. CASE Overtakes(r)
    BY <2>1, <2>4, <1>1 DEF Overtakes, Overtaken, Follows
  <2>5. CASE Paints(r)
    <3>1. painted' = call[r].gen /\ stranded' = (stranded /\ slot.gen # call[r].gen)
          /\ call[r].seq = seq /\ call[r].shown
      BY <2>5 DEF Paints, Overtaken
    <3>2. call[r].gen # 0 /\ (slot.gen = call[r].gen \/ Owing)
      BY <1>1, <2>1, <3>1 DEF Follows, Replying
    <3>3. QED BY <1>1, <2>3, <3>1, <3>2, FlowsResting DEF Behind, FlowsRest
  <2>6. CASE ShowsError(r)
    <3>1. UNCHANGED <<painted, stranded>> /\ ~call[r].shown
      BY <2>6 DEF ShowsError
    <3>2. slot.gen # call[r].gen
      BY <1>1, <2>1, <3>1 DEF Follows, Unstored
    <3>3. Behind \/ Owing
      BY <3>1 DEF ScreenInv, ScreenFits
    <3>4. QED BY <1>1, <2>2, <3>1, <3>2, <3>3, FlowsResting DEF Behind, FlowsRest
  <2>7. QED BY <2>4, <2>5, <2>6
<1>8. QED BY <1>3, <1>4, <1>6, <1>7 DEF ScreenInv

(* A step that leaves the runs, the cache and the screen, and brings the    *)
(* session's end no nearer its end.                                         *)
LEMMA AsideScreen ==
    ASSUME ScreenInv, UNCHANGED <<call, generation, slot, seq, painted, overlapped, stranded, tenant, epoch>>,
           Owing => Owing', MidSwitch => MidSwitch', Switching => Switching'
    PROVE  ScreenInv'
<1>1. SlotFits' /\ OneAtATime'
  BY DEF ScreenInv, SlotFits, OneAtATime, InFlight
<1>2. RunsFollow'
  BY DEF ScreenInv, RunsFollow, Follows, Unstored, Replying
<1>3. ScreenFits'
  BY DEF ScreenInv, ScreenFits, Behind
<1>4. QED BY <1>1, <1>2, <1>3 DEF ScreenInv

LEMMA AsideSteps ==
    ASSUME TypeOK, ScreenInv,
           \/ Queues \/ Waits \/ UNCHANGED vars
           \/ \E v \in Reader : TakesHandle(v) \/ OffersMemo(v)
    PROVE  ScreenInv'
<1>1. CASE Queues \/ Waits \/ UNCHANGED vars
  <2>1. UNCHANGED <<call, generation, slot, seq, painted, overlapped, stranded, tenant, epoch, saving, signing>>
    BY <1>1 DEF Queues, Waits, vars, flowVars, screenVars
  <2>2. QED BY <2>1, AsideScreen DEF Owing, MidSwitch, Switching
<1>2. CASE \E v \in Reader : TakesHandle(v) \/ OffersMemo(v)
  <2>1. /\ UNCHANGED <<call, generation, seq, painted, overlapped, stranded>> /\ FlowsRest
        /\ slot'.gen = slot.gen /\ slot'.tenant = slot.tenant
    BY <1>2 DEF TakesHandle, OffersMemo, flowVars, screenVars, FlowsRest, TypeOK, Result
  <2>2. SlotFits' /\ OneAtATime'
    BY <2>1, FlowsResting DEF ScreenInv, SlotFits, OneAtATime, InFlight, FlowsRest
  <2>3. RunsFollow'
    BY <2>1, FlowsResting DEF ScreenInv, RunsFollow, Follows, Unstored, Replying
  <2>4. ScreenFits'
    BY <2>1, FlowsResting DEF ScreenInv, ScreenFits, Behind, FlowsRest
  <2>5. QED BY <2>2, <2>3, <2>4 DEF ScreenInv
<1>3. QED BY <1>1, <1>2

(* clear_last_result, in its two steps.                                     *)
LEMMA BumpScreen ==
    ASSUME TypeOK, ScreenInv, BumpsEpoch, Owing => Owing',
           MidSwitch => MidSwitch'
    PROVE  ScreenInv'
<1>1. UNCHANGED <<call, tenant, generation, slot, seq, painted, overlapped, stranded>> /\ epoch' = epoch + 1
  BY DEF BumpsEpoch, screenVars
<1>2. \A r \in Run : call[r].epoch \in Nat /\ epoch \in Nat
  BY DEF TypeOK, Call
<1>3. SlotFits' /\ OneAtATime'
  BY <1>1, <1>2 DEF ScreenInv, SlotFits, OneAtATime, InFlight
<1>4. RunsFollow'
  BY <1>1 DEF ScreenInv, RunsFollow, Follows, Unstored, Replying
<1>5. ScreenFits'
  BY <1>1 DEF ScreenInv, ScreenFits, Behind
<1>6. QED BY <1>3, <1>4, <1>5 DEF ScreenInv

LEMMA TakeScreen ==
    ASSUME TypeOK, ScreenInv, TakesResult, Owing', Switching => Switching'
    PROVE  ScreenInv'
<1>1. UNCHANGED <<call, tenant, epoch, generation, seq, painted, overlapped, stranded>> /\ slot'.gen = 0
  BY DEF TakesResult, NoResult, screenVars
<1>2. SlotFits' /\ OneAtATime'
  BY <1>1 DEF ScreenInv, SlotFits, OneAtATime, InFlight
<1>3. RunsFollow'
  BY <1>1 DEF ScreenInv, RunsFollow, Follows, Unstored, Replying
<1>4. ScreenFits'
  BY DEF ScreenFits
<1>5. QED BY <1>2, <1>3, <1>4 DEF ScreenInv

(* The command returns: the stamps and the screen are cleared, or the table *)
(* is stranded.                                                             *)
LEMMA ReturnScreen ==
    ASSUME TypeOK, ScreenInv, ClearSession \/ ShowsFailure,
           MidSwitch => MidSwitch', Switching => Switching'
    PROVE  ScreenInv'
<1>1. /\ UNCHANGED <<call, tenant, epoch, generation, slot, overlapped>>
      /\ \/ painted' = 0 /\ seq' = seq + 1
         \/ stranded' /\ UNCHANGED <<painted, seq>>
  BY DEF ClearSession, ShowsFailure
<1>2. \A r \in Run : call[r].seq \in Nat /\ seq \in Nat /\ call[r].seq <= seq
  BY DEF TypeOK, Call
<1>3. SlotFits' /\ OneAtATime'
  BY <1>1 DEF ScreenInv, SlotFits, OneAtATime, InFlight
<1>4. RunsFollow'
  BY <1>1, <1>2 DEF ScreenInv, RunsFollow, Follows, Unstored, Replying
<1>5. ScreenFits'
  BY <1>1 DEF ScreenFits
<1>6. QED BY <1>3, <1>4, <1>5 DEF ScreenInv

LEMMA SaverScreen ==
    ASSUME TypeOK, ScreenInv, NEW s \in Saver, SaverStep(s)
    PROVE  ScreenInv'
<1>0. saving \in [Saver -> SavePlaces]
  BY DEF TypeOK
<1>1. CASE Publish(s)
  <2>1. /\ UNCHANGED <<call, epoch, generation, slot, seq, painted, overlapped, stranded>>
        /\ saving'[s] = "published"
    BY <1>0, <1>1 DEF Publish, SaveGoes, screenVars
  <2>2. Owing' /\ MidSwitch' /\ Switching'
    BY <2>1 DEF Owing, MidSwitch, Switching
  <2>3. SlotFits' /\ OneAtATime' /\ ScreenFits'
    BY <2>1, <2>2 DEF ScreenInv, SlotFits, OneAtATime, InFlight, ScreenFits
  <2>4. RunsFollow'
    BY <2>1, <2>2 DEF ScreenInv, RunsFollow, Follows, Unstored, Replying
  <2>5. QED BY <2>3, <2>4 DEF ScreenInv
<1>2. CASE ApplySettings(s)
  <2>1. /\ UNCHANGED <<call, tenant, epoch, generation, slot, seq, painted, overlapped, stranded>>
        /\ saving'[s] = "applied"
    BY <1>0, <1>2 DEF ApplySettings, screenVars
  <2>2. Owing' /\ MidSwitch' /\ Switching'
    BY <2>1 DEF Owing, MidSwitch, Switching
  <2>3. QED BY <2>1, <2>2, AsideScreen
<1>3. CASE SaveBumps(s)
  <2>1. saving'[s] = "bumped"
    BY <1>0, <1>3 DEF SaveBumps, SaveGoes
  <2>2. QED BY <1>3, <2>1, BumpScreen DEF SaveBumps, Owing, MidSwitch
<1>4. CASE SaveTakes(s)
  <2>1. saving[s] = "bumped" /\ saving' = [saving EXCEPT ![s] = "taken"]
    BY <1>4 DEF SaveTakes, SaveGoes
  <2>2. Owing' /\ (Switching => Switching')
    BY <1>0, <2>1 DEF Owing, Switching
  <2>3. QED BY <1>4, <2>2, TakeScreen DEF SaveTakes
<1>5. CASE SaveReturns(s)
  <2>1. saving[s] = "taken" /\ saving' = [saving EXCEPT ![s] = "done"]
    BY <1>5 DEF SaveReturns, SaveGoes
  <2>2. (MidSwitch => MidSwitch') /\ (Switching => Switching')
    BY <1>0, <2>1 DEF MidSwitch, Switching
  <2>3. QED BY <1>5, <2>2, ReturnScreen DEF SaveReturns
<1>6. QED BY <1>1, <1>2, <1>3, <1>4, <1>5 DEF SaverStep

LEMMA SignerScreen ==
    ASSUME TypeOK, ScreenInv, NEW g \in Signer, SignerStep(g)
    PROVE  ScreenInv'
<1>0. signing \in [Signer -> SignPlaces]
  BY DEF TypeOK
<1>1. CASE SignBumps(g)
  <2>1. UNCHANGED saving /\ signing[g] = "idle" /\ \A h \in Signer \ {g} : signing'[h] = signing[h]
    BY <1>0, <1>1 DEF SignBumps, SignGoes
  <2>2. QED BY <1>1, <2>1, BumpScreen DEF SignBumps, Owing, MidSwitch
<1>2. CASE SignTakes(g)
  <2>1. UNCHANGED saving /\ signing'[g] = "taken"
    BY <1>0, <1>2 DEF SignTakes, SignGoes
  <2>2. QED BY <1>2, <2>1, TakeScreen DEF SignTakes, Owing, Switching
<1>3. CASE Logout(g) \/ FindsNone(g) \/ Login(g)
  <2>1. /\ UNCHANGED <<call, generation, slot, seq, painted, overlapped, stranded, tenant, epoch, saving>>
        /\ signing'[g] \in {"left", "refused", "browsing", "entered"}
    BY <1>0, <1>3 DEF Logout, FindsNone, Login, Leaves, SignGoes, Browse, screenVars
  <2>2. Owing'
    BY <2>1 DEF Owing
  <2>3. QED BY <2>1, <2>2, AsideScreen DEF MidSwitch, Switching
<1>4. CASE SignReturns(g) \/ SignFails(g)
  <2>1. UNCHANGED saving
    BY <1>4 DEF SignReturns, SignFails, SignGoes
  <2>2. QED BY <1>4, <2>1, ReturnScreen DEF SignReturns, SignFails, MidSwitch, Switching
<1>5. QED BY <1>1, <1>2, <1>3, <1>4 DEF SignerStep

LEMMA ScreenInit == Init => ScreenInv
BY DEF Init, ScreenInv, SlotFits, OneAtATime, RunsFollow, Follows, Unstored, Replying, ScreenFits,
   InFlight, NoCall, NoResult

LEMMA ScreenStep == TypeOK /\ ScreenInv /\ [Next]_vars => ScreenInv'
<1> SUFFICES ASSUME TypeOK, ScreenInv, [Next]_vars PROVE ScreenInv'
  OBVIOUS
<1>1. ASSUME NEW r \in Run, RunStep(r) PROVE ScreenInv'
  BY <1>1, StartsScreen, BeginsScreen, ProgressScreen, StoresScreen, ReplyScreen DEF RunStep
<1>2. QED BY <1>1, AsideSteps, SaverScreen, SignerScreen DEF Next

(* "Return a summary only when the rows behind it are readable"             *)
(* (query-cache.md): while no session is being ended, what paging, export   *)
(* and the report read is the table on screen, or a result about to replace *)
(* it; for any number of runs, saves and sign-ins, until runs overlap or a  *)
(* command fails half way.                                                  *)
THEOREM TheScreenIsReadable == Spec => []ScreenIsReadable
<1>1. TypeOK /\ ScreenInv => ScreenIsReadable
  BY DEF ScreenInv, ScreenFits, ScreenIsReadable, Owing, SaveUnderWay, SignUnderWay, TypeOK
<1>2. QED BY <1>1, ScreenInit, ScreenStep, TypeCorrect, PTL DEF Spec
=============================================================================
