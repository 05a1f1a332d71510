------------------------ MODULE ArtifactStore_proofs ------------------------
(***************************************************************************)
(* What holds of the artifact store for any number of calls, results,      *)
(* writes per result and any time to live.                                 *)
(***************************************************************************)
EXTENDS ArtifactStore, TLAPS

-----------------------------------------------------------------------------
\* What the type of a call says in each of its states.
LEMMA CallType ==
  ASSUME TypeOK, NEW call \in Calls
  PROVE  /\ calls[call].at = "write" =>
              /\ calls[call] = Writing(calls[call].content, calls[call].part)
              /\ calls[call].content \in Stored /\ calls[call].part \in 1 .. Parts + 1
         /\ calls[call].at = "check" =>
              /\ calls[call].content \in Stored
              /\ calls[call].mtime \in Nat /\ calls[call].promise \in Nat
         /\ calls[call].at = "read" =>
              calls[call].content \in Stored /\ calls[call].promise \in Nat
         /\ calls[call].at = "refused" =>
              calls[call].time \in Nat /\ calls[call].promise \in Nat
<1>1. calls[call] \in Call
  BY DEF TypeOK
<1>2. calls[call].at \in {"write", "check", "read"} => calls[call].content \in Stored
  BY DEF TypeOK
<1> QED BY <1>1, <1>2 DEF Call, Idle, Writing

LEMMA FileType ==
  ASSUME TypeOK, NEW content \in Stored
  PROVE  /\ content \in Contents /\ files[content] \in File
         /\ files[content].parts \subseteq Whole /\ files[content].mtime \in Nat
         /\ promised[content] \in Nat
BY DEF TypeOK, File

\* A step that changes one call, and forgets none of the files.
LEMMA CallChanges ==
  ASSUME TypeOK, NEW call \in Calls, NEW state \in Call, Becomes(call, state),
         Stored \subseteq Stored', Stored' \subseteq Contents, files' \in [Stored' -> File],
         state.at \in {"write", "check", "read"} => state.content \in Stored',
         clock' = clock, promised' \in [Contents -> Nat], damaged' \subseteq Stored'
  PROVE  TypeOK'
<1>1. calls' \in [Calls -> Call]
  BY DEF TypeOK, Becomes
<1>2. ASSUME NEW other \in Calls, calls'[other].at \in {"write", "check", "read"}
      PROVE  calls'[other].content \in Stored'
  <2>1. CASE other = call
    BY <1>2, <2>1 DEF TypeOK, Becomes
  <2>2. CASE other # call
    BY <1>2, <2>2 DEF TypeOK, Becomes
  <2> QED BY <2>1, <2>2
<1> QED BY <1>1, <1>2 DEF TypeOK

LEMMA TypeStep == TypeOK /\ [Next]_vars => TypeOK'
<1> SUFFICES ASSUME TypeOK, [Next]_vars PROVE TypeOK'
  OBVIOUS
<1> USE StoreAssumption
<1>0. Idle \in Call /\ Idle.at = "idle"
  BY DEF Call, Idle
<1>1. ASSUME NEW call \in Calls, NEW content \in Contents, OpenFile(call, content)
      PROVE  TypeOK'
  <2>1. Writing(content, 1) \in Call
    BY DEF Writing, Call
  <2>0. [parts |-> {}, mtime |-> clock] \in File
    BY DEF File, TypeOK
  <2>2. Stored' = Stored \union {content} /\ files' \in [Stored' -> File]
    BY <1>1, <2>0 DEF OpenFile, TypeOK, Stored
  <2>3. Writing(content, 1).content = content
    BY DEF Writing
  <2> QED BY <1>1, <2>1, <2>2, <2>3, CallChanges DEF OpenFile, TypeOK, Stored
<1>2. ASSUME NEW call \in Calls, NEW content \in Contents, StatFile(call, content)
      PROVE  TypeOK'
  <2>1. CASE content \in Stored
    <3>1. Checking(content) \in Call /\ Checking(content).content = content
      BY <2>1, FileType DEF Checking, Call
    <3> QED BY <1>2, <2>1, <3>1, CallChanges DEF StatFile, TypeOK, Stored
  <2>2. CASE content \notin Stored
    <3>1. Refused(promised[content]) \in Call /\ Refused(promised[content]).at = "refused"
      BY DEF Refused, Call, TypeOK
    <3> QED BY <1>2, <2>2, <3>1, CallChanges DEF StatFile, TypeOK, Stored
  <2> QED BY <2>1, <2>2
<1>3. ASSUME NEW call \in Calls, WritePart(call) PROVE TypeOK'
  <2> DEFINE content == calls[call].content
             part    == calls[call].part
  <2>1. content \in Stored /\ part \in 1 .. Parts /\ content \in Contents
    BY <1>3, CallType DEF WritePart, TypeOK
  <2>2. Writing(content, part + 1) \in Call /\ Writing(content, part + 1).content = content
    BY <2>1 DEF Writing, Call
  <2>3. [parts |-> files[content].parts \union {part}, mtime |-> clock] \in File
    BY <2>1, FileType DEF File, Whole, TypeOK
  <2>4. Stored' = Stored /\ files' \in [Stored' -> File]
    BY <1>3, <2>1, <2>3 DEF WritePart, TypeOK, Stored
  <2> QED BY <1>3, <2>1, <2>2, <2>4, CallChanges DEF WritePart, TypeOK, Stored
<1>4. ASSUME NEW call \in Calls, WriteFails(call) PROVE TypeOK'
  BY <1>0, <1>4, CallType, CallChanges DEF WriteFails, TypeOK, Stored
<1>5. ASSUME NEW call \in Calls, TellExpiry(call) PROVE TypeOK'
  <2>1. calls[call].content \in Stored
    BY <1>5, CallType DEF TellExpiry
  <2>2. files[calls[call].content].mtime + Ttl \in Nat
    BY <2>1, FileType
  <2>3. promised' \in [Contents -> Nat]
    BY <1>5, <2>2 DEF TellExpiry, TypeOK
  <2> QED BY <1>0, <1>5, <2>3, CallChanges DEF TellExpiry, TypeOK, Stored
<1>6. ASSUME NEW call \in Calls, CheckExpiry(call) PROVE TypeOK'
  <2> DEFINE reading == Reading(calls[call].content, calls[call].promise)
             refused == Refused(calls[call].promise)
  <2>1. calls[call].content \in Stored /\ calls[call].promise \in Nat
    BY <1>6, CallType DEF CheckExpiry
  <2>2. reading \in Call /\ reading.content \in Stored
    BY <2>1 DEF Reading, Call, TypeOK
  <2>3. refused \in Call /\ refused.at = "refused"
    BY <2>1 DEF Refused, Call, TypeOK
  <2> HIDE DEF reading, refused
  <2>4. Becomes(call, reading) \/ Becomes(call, refused)
    BY <1>6 DEF CheckExpiry, reading, refused
  <2> QED BY <1>6, <2>2, <2>3, <2>4, CallChanges DEF CheckExpiry, TypeOK, Stored
<1>7. ASSUME NEW call \in Calls, ReadFile(call) PROVE TypeOK'
  <2> DEFINE served == Served(calls[call].content, calls[call].promise)
  <2>1. calls[call].content \in Stored /\ calls[call].promise \in Nat
    BY <1>7, CallType DEF ReadFile
  <2>2. served \in Call /\ served.at = "served"
    BY <2>1, FileType DEF Served, Call
  <2> HIDE DEF served
  <2>3. Becomes(call, served)
    BY <1>7 DEF ReadFile, served
  <2> QED BY <1>7, <2>2, <2>3, CallChanges DEF ReadFile, TypeOK, Stored
<1>8. ASSUME NEW call \in Calls, Return(call) PROVE TypeOK'
  BY <1>0, <1>8, CallChanges DEF Return, TypeOK, Stored
<1>9. CASE Crash
  <2>1. \A call \in Calls : calls[call].at = "write" => calls[call].content \in Stored
    BY CallType
  <2>2. damaged' \subseteq Stored
    BY <1>9, <2>1 DEF Crash, TypeOK, WritesOf
  <2> QED BY <1>0, <1>9, <2>2 DEF Crash, TypeOK, Stored
<1>10. CASE Tick
  BY <1>10 DEF Tick, TypeOK, Stored
<1>11. CASE UNCHANGED vars
  BY <1>11 DEF vars, TypeOK, Stored
<1> QED
  BY <1>1, <1>2, <1>3, <1>4, <1>5, <1>6, <1>7, <1>8, <1>9, <1>10, <1>11 DEF Next

LEMMA TypeInit == Init => TypeOK
BY DEF Init, TypeOK, Call, File, Stored, Idle

(***************************************************************************)
(* The store is always well typed: no call speaks of a file that is not    *)
(* there, and no file has a part its content does not have.                *)
(***************************************************************************)
THEOREM TypeCorrect == Spec => []TypeOK
BY TypeInit, TypeStep, PTL DEF Spec

-----------------------------------------------------------------------------
(***************************************************************************)
(* The promised expiry.  The file of a content is never older than what    *)
(* was promised for it allows; a read carries a promise no later than the  *)
(* expiry of the time it has seen.                                         *)
(***************************************************************************)
FilesKeepPromises ==
  /\ \A content \in Stored :
       /\ promised[content] <= files[content].mtime + Ttl
       /\ files[content].mtime <= clock
  /\ \A content \in Contents \ Stored : promised[content] = 0

CheckKeepsPromise(call) ==
  calls[call].at = "check" =>
    /\ calls[call].promise <= calls[call].mtime + Ttl
    /\ calls[call].mtime <= clock

PromiseInv ==
  FilesKeepPromises /\ PromiseKept /\ \A call \in Calls : CheckKeepsPromise(call)

\* Steps that write a file, or tell an expiry: they leave the reads alone.
LEMMA FilesStep ==
  ASSUME TypeOK, [Next]_vars, FilesKeepPromises
  PROVE  FilesKeepPromises'
<1> USE StoreAssumption
<1>0. clock \in Nat
  BY DEF TypeOK
<1>1. ASSUME UNCHANGED <<clock, files, promised>> PROVE FilesKeepPromises'
  BY <1>1 DEF FilesKeepPromises, Stored
<1>2. ASSUME NEW content \in Contents, clock' = clock, promised' = promised,
             Stored' = Stored \union {content}, files'[content].mtime = clock,
             \A d \in Stored \ {content} : files'[d].mtime = files[d].mtime
      PROVE  FilesKeepPromises'
  <2>1. promised[content] <= clock + Ttl
    <3>1. CASE content \in Stored
      BY <1>0, <3>1, FileType DEF FilesKeepPromises
    <3>2. CASE content \notin Stored
      BY <1>0, <3>2 DEF FilesKeepPromises
    <3> QED BY <3>1, <3>2
  <2>2. ASSUME NEW d \in Stored'
        PROVE  promised'[d] <= files'[d].mtime + Ttl /\ files'[d].mtime <= clock'
    <3>1. CASE d = content
      BY <1>0, <1>2, <2>1, <3>1
    <3>2. CASE d # content
      BY <1>2, <2>2, <3>2 DEF FilesKeepPromises
    <3> QED BY <3>1, <3>2
  <2>3. \A d \in Contents \ Stored' : promised'[d] = 0
    BY <1>2 DEF FilesKeepPromises
  <2> QED BY <2>2, <2>3 DEF FilesKeepPromises
<1>3. ASSUME NEW call \in Calls, NEW content \in Contents, OpenFile(call, content)
      PROVE  FilesKeepPromises'
  <2>1. /\ Stored' = Stored \union {content} /\ files'[content].mtime = clock
        /\ \A d \in Stored \ {content} : files'[d].mtime = files[d].mtime
    BY <1>3 DEF OpenFile, Stored
  <2> QED BY <1>2, <1>3, <2>1 DEF OpenFile
<1>4. ASSUME NEW call \in Calls, WritePart(call) PROVE FilesKeepPromises'
  <2> DEFINE content == calls[call].content
  <2>1. content \in Stored /\ content \in Contents
    BY <1>4, CallType, FileType DEF WritePart
  <2>2. /\ Stored' = Stored \union {content} /\ files'[content].mtime = clock
        /\ \A d \in Stored \ {content} : files'[d].mtime = files[d].mtime
    BY <1>4, <2>1 DEF WritePart, TypeOK, Stored
  <2> QED BY <1>2, <1>4, <2>1, <2>2 DEF WritePart
<1>5. ASSUME NEW call \in Calls, TellExpiry(call) PROVE FilesKeepPromises'
  <2> DEFINE content == calls[call].content
             expiry  == files[content].mtime + Ttl
  <2>1. content \in Stored /\ content \in Contents /\ expiry \in Nat
    BY <1>5, CallType, FileType DEF TellExpiry
  <2>2. promised' = [promised EXCEPT ![content] = IF @ < expiry THEN expiry ELSE @]
    BY <1>5 DEF TellExpiry
  <2>3. promised'[content] = expiry \/ promised'[content] = promised[content]
    BY <2>1, <2>2 DEF TypeOK
  <2>4. \A d \in Contents \ {content} : promised'[d] = promised[d]
    BY <2>2 DEF TypeOK
  <2>5. UNCHANGED <<clock, files, Stored>>
    BY <1>5 DEF TellExpiry, Stored
  <2>6. ASSUME NEW d \in Stored
        PROVE  promised'[d] <= files[d].mtime + Ttl /\ files[d].mtime <= clock
    <3>1. CASE d = content
      BY <2>1, <2>3, <3>1 DEF FilesKeepPromises
    <3>2. CASE d # content
      BY <2>4, <2>6, <3>2, FileType DEF FilesKeepPromises
    <3> QED BY <3>1, <3>2
  <2>7. \A d \in Contents \ Stored : promised'[d] = 0
    BY <2>1, <2>4 DEF FilesKeepPromises
  <2> QED BY <2>5, <2>6, <2>7 DEF FilesKeepPromises
<1>6. ASSUME NEW call \in Calls, NEW content \in Contents, StatFile(call, content)
      PROVE  FilesKeepPromises'
  BY <1>1, <1>6 DEF StatFile
<1>7. ASSUME NEW call \in Calls,
             WriteFails(call) \/ CheckExpiry(call) \/ ReadFile(call) \/ Return(call)
      PROVE  FilesKeepPromises'
  BY <1>1, <1>7 DEF WriteFails, CheckExpiry, ReadFile, Return
<1>8. CASE Crash
  BY <1>1, <1>8 DEF Crash
<1>9. CASE Tick
  <2>1. \A content \in Stored : files[content].mtime \in Nat
    BY FileType
  <2>2. clock' = clock + 1 /\ UNCHANGED <<files, promised, Stored>>
    BY <1>9 DEF Tick, Stored
  <2> QED BY <1>0, <2>1, <2>2 DEF FilesKeepPromises
<1>10. CASE UNCHANGED vars
  BY <1>1, <1>10 DEF vars
<1> QED BY <1>3, <1>4, <1>5, <1>6, <1>7, <1>8, <1>9, <1>10 DEF Next

\* What one call is allowed to be for PromiseInv to hold of it.
CallKeepsPromise(call) ==
  /\ CheckKeepsPromise(call)
  /\ calls[call].at = "refused" => calls[call].promise <= calls[call].time

LEMMA CallsStep ==
  ASSUME TypeOK, [Next]_vars, FilesKeepPromises, NEW call \in Calls, CallKeepsPromise(call)
  PROVE  CallKeepsPromise(call)'
<1> USE StoreAssumption
<1>0. clock \in Nat
  BY DEF TypeOK
<1>1. ASSUME clock' = clock \/ clock' = clock + 1, calls'[call] = calls[call]
      PROVE  CallKeepsPromise(call)'
  BY <1>0, <1>1, CallType DEF CallKeepsPromise, CheckKeepsPromise
<1>2. ASSUME calls'[call].at \notin {"check", "refused"} PROVE CallKeepsPromise(call)'
  BY <1>2 DEF CallKeepsPromise, CheckKeepsPromise
<1>3. ASSUME NEW other \in Calls, NEW state, Becomes(other, state), clock' = clock
      PROVE  CallKeepsPromise(call)' \/ (other = call /\ calls'[call] = state)
  <2>1. CASE other = call
    BY <1>3, <2>1 DEF Becomes, TypeOK
  <2>2. CASE other # call
    BY <1>1, <1>3, <2>2 DEF Becomes, TypeOK
  <2> QED BY <2>1, <2>2
<1>4. ASSUME NEW other \in Calls, NEW content \in Contents, OpenFile(other, content)
      PROVE  CallKeepsPromise(call)'
  <2>1. Writing(content, 1).at = "write"
    BY DEF Writing
  <2> QED BY <1>2, <1>3, <1>4, <2>1 DEF OpenFile
<1>5. ASSUME NEW other \in Calls, NEW content \in Contents, StatFile(other, content)
      PROVE  CallKeepsPromise(call)'
  <2>1. CASE content \in Stored
    <3>1. /\ Checking(content).at = "check"
          /\ Checking(content).promise <= Checking(content).mtime + Ttl
          /\ Checking(content).mtime <= clock
      BY <2>1 DEF Checking, FilesKeepPromises
    <3>2. Becomes(other, Checking(content)) /\ clock' = clock
      BY <1>5, <2>1 DEF StatFile
    <3>3. CallKeepsPromise(call)' \/ calls'[call] = Checking(content)
      BY <1>3, <3>2
    <3> QED BY <3>1, <3>2, <3>3 DEF CallKeepsPromise, CheckKeepsPromise
  <2>2. CASE content \notin Stored
    <3> DEFINE state == Refused(promised[content])
    <3>1. state.at = "refused" /\ state.promise <= state.time
      BY <1>0, <2>2 DEF Refused, FilesKeepPromises
    <3> HIDE DEF state
    <3>2. Becomes(other, state) /\ clock' = clock
      BY <1>5, <2>2 DEF StatFile, state
    <3>3. CallKeepsPromise(call)' \/ calls'[call] = state
      BY <1>3, <3>2
    <3> QED BY <3>1, <3>3 DEF CallKeepsPromise, CheckKeepsPromise
  <2> QED BY <2>1, <2>2
<1>6. ASSUME NEW other \in Calls, CheckExpiry(other) PROVE CallKeepsPromise(call)'
  <2> DEFINE reading == Reading(calls[other].content, calls[other].promise)
             refused == Refused(calls[other].promise)
  <2>0. reading.at = "read" /\ clock' = clock
    BY <1>6 DEF Reading, CheckExpiry
  <2>1. CASE ~IsExpired(calls[other].mtime)
    <3>1. Becomes(other, reading)
      BY <1>6, <2>1 DEF CheckExpiry
    <3> HIDE DEF reading
    <3> QED BY <1>2, <1>3, <2>0, <3>1
  <2>2. CASE IsExpired(calls[other].mtime)
    <3>1. Becomes(other, refused)
      BY <1>6, <2>2 DEF CheckExpiry
    <3>2. refused.at = "refused" /\ refused.promise = calls[other].promise /\ refused.time = clock
      BY DEF Refused
    <3> HIDE DEF refused
    <3>3. CASE other = call
      <4>1. calls[call].at = "check" /\ calls[call].mtime \in Nat /\ calls[call].promise \in Nat
        BY <1>6, <3>3, CallType DEF CheckExpiry
      <4>2. calls[call].promise <= calls[call].mtime + Ttl /\ calls[call].mtime <= clock
        BY <4>1 DEF CallKeepsPromise, CheckKeepsPromise
      <4>3. refused.promise <= refused.time
        BY <1>0, <2>2, <3>2, <3>3, <4>1, <4>2 DEF IsExpired
      <4>4. CallKeepsPromise(call)' \/ calls'[call] = refused
        BY <1>3, <2>0, <3>1
      <4> QED BY <3>2, <4>3, <4>4 DEF CallKeepsPromise, CheckKeepsPromise
    <3>4. CASE other # call
      BY <1>3, <2>0, <3>1, <3>4
    <3> QED BY <3>3, <3>4
  <2> QED BY <2>1, <2>2
<1>7. ASSUME NEW other \in Calls, WritePart(other) PROVE CallKeepsPromise(call)'
  <2> DEFINE state == Writing(calls[other].content, calls[other].part + 1)
  <2>1. state.at = "write"
    BY DEF Writing
  <2>2. Becomes(other, state) /\ clock' = clock
    BY <1>7 DEF WritePart
  <2> HIDE DEF state
  <2> QED BY <1>2, <1>3, <2>1, <2>2
<1>8. ASSUME NEW other \in Calls, WriteFails(other) \/ TellExpiry(other) \/ Return(other)
      PROVE  CallKeepsPromise(call)'
  <2>1. Idle.at = "idle"
    BY DEF Idle
  <2>2. Becomes(other, Idle) /\ clock' = clock
    BY <1>8 DEF WriteFails, TellExpiry, Return
  <2> QED BY <1>2, <1>3, <2>1, <2>2
<1>9. ASSUME NEW other \in Calls, ReadFile(other) PROVE CallKeepsPromise(call)'
  <2> DEFINE state == Served(calls[other].content, calls[other].promise)
  <2>1. state.at = "served"
    BY DEF Served
  <2>2. Becomes(other, state) /\ clock' = clock
    BY <1>9 DEF ReadFile
  <2> HIDE DEF state
  <2> QED BY <1>2, <1>3, <2>1, <2>2
<1>10. CASE Crash
  BY <1>2, <1>10 DEF Crash, Idle
<1>11. CASE Tick
  BY <1>1, <1>11 DEF Tick
<1>12. CASE UNCHANGED vars
  BY <1>1, <1>12 DEF vars
<1> QED BY <1>4, <1>5, <1>6, <1>7, <1>8, <1>9, <1>10, <1>11, <1>12 DEF Next

(***************************************************************************)
(* As long as the clock is not set back, no artifact is refused as expired *)
(* or missing before the latest expires_at given out for it when the read  *)
(* began.                                                                  *)
(***************************************************************************)
THEOREM PromisesKept == Spec => []PromiseKept
<1>1. Init => PromiseInv
  BY DEF Init, PromiseInv, FilesKeepPromises, PromiseKept, CheckKeepsPromise, Stored, Idle
<1>2. PromiseInv /\ TypeOK /\ [Next]_vars => PromiseInv'
  BY FilesStep, CallsStep DEF PromiseInv, PromiseKept, CallKeepsPromise
<1>3. PromiseInv => PromiseKept
  BY DEF PromiseInv
<1> QED BY <1>1, <1>2, <1>3, TypeCorrect, PTL DEF Spec

-----------------------------------------------------------------------------
(***************************************************************************)
(* Whole files.  A file that is not damaged is whole, or one of its        *)
(* writers has seen no other open the file since its own writes: the last  *)
(* to open it is such a writer.                                            *)
(***************************************************************************)
WroteAllSoFar(call) ==
  /\ calls[call].at = "write"
  /\ \A part \in 1 .. Parts : part < calls[call].part =>
       part \in files[calls[call].content].parts

Covered(content) ==
  \/ files[content].parts = Whole
  \/ \E call \in Calls : WroteAllSoFar(call) /\ calls[call].content = content

CoverInv == \A content \in Stored \ damaged : Covered(content)

\* A step that cuts no file and ends no write of the content.
LEMMA CoverKept ==
  ASSUME TypeOK, TypeOK', NEW content \in Stored, Covered(content), content \in Stored',
         files[content].parts \subseteq files'[content].parts,
         \A call \in WritesOf(content) :
           WroteAllSoFar(call) => WroteAllSoFar(call)' /\ calls'[call].content = content
  PROVE  Covered(content)'
<1>1. CASE files[content].parts = Whole
  <2>1. files'[content].parts \subseteq Whole
    BY DEF TypeOK, File, Stored, Whole
  <2> QED BY <1>1, <2>1 DEF Covered, Whole
<1>2. ASSUME NEW call \in Calls, WroteAllSoFar(call), calls[call].content = content
      PROVE  Covered(content)'
  <2>1. call \in WritesOf(content)
    BY <1>2 DEF WritesOf, WroteAllSoFar
  <2> QED BY <1>2, <2>1 DEF Covered
<1> QED BY <1>1, <1>2 DEF Covered

LEMMA CoverStep == TypeOK /\ TypeOK' /\ CoverInv /\ [Next]_vars => CoverInv'
<1> SUFFICES ASSUME TypeOK, TypeOK', CoverInv, [Next]_vars, NEW content \in Stored' \ damaged'
             PROVE  Covered(content)'
  BY DEF CoverInv
<1> USE StoreAssumption
<1>1. ASSUME UNCHANGED <<files, damaged>>,
             \A call \in WritesOf(content) : calls'[call] = calls[call]
      PROVE  Covered(content)'
  <2>1. content \in Stored \ damaged /\ Covered(content)
    BY <1>1 DEF CoverInv, Stored
  <2>2. \A call \in WritesOf(content) :
          WroteAllSoFar(call) => WroteAllSoFar(call)' /\ calls'[call].content = content
    BY <1>1 DEF WroteAllSoFar, WritesOf
  <2> QED BY <1>1, <2>1, <2>2, CoverKept DEF Stored
<1>2. ASSUME NEW call \in Calls, NEW state, Becomes(call, state), calls[call].at # "write",
             UNCHANGED <<files, damaged>>
      PROVE  Covered(content)'
  <2>1. \A other \in WritesOf(content) : calls'[other] = calls[other]
    BY <1>2 DEF Becomes, TypeOK, WritesOf
  <2> QED BY <1>1, <1>2, <2>1
<1>3. ASSUME NEW call \in Calls, NEW d \in Contents, OpenFile(call, d) PROVE Covered(content)'
  <2>1. calls'[call] = Writing(d, 1)
    BY <1>3 DEF OpenFile, Becomes, TypeOK
  <2>2. CASE content = d
    <3>1. calls'[call].at = "write" /\ calls'[call].content = content /\ calls'[call].part = 1
      BY <2>1, <2>2 DEF Writing
    <3>2. \A part \in 1 .. Parts : ~(part < 1)
      OBVIOUS
    <3> QED BY <3>1, <3>2 DEF Covered, WroteAllSoFar
  <2>3. CASE content # d
    <3>1. content \in Stored \ damaged /\ files'[content] = files[content]
      BY <1>3, <2>3 DEF OpenFile, Stored
    <3>2. \A other \in WritesOf(content) : calls'[other] = calls[other]
      BY <1>3 DEF OpenFile, Becomes, WritesOf, TypeOK, Idle
    <3>3. \A other \in WritesOf(content) :
            WroteAllSoFar(other) => WroteAllSoFar(other)' /\ calls'[other].content = content
      BY <3>1, <3>2 DEF WroteAllSoFar, WritesOf
    <3> QED BY <3>1, <3>3, CoverKept DEF CoverInv
  <2> QED BY <2>2, <2>3
<1>4. ASSUME NEW call \in Calls, WritePart(call) PROVE Covered(content)'
  <2> DEFINE d    == calls[call].content
             part == calls[call].part
  <2>1. d \in Stored /\ part \in 1 .. Parts /\ calls[call].at = "write"
    BY <1>4, CallType DEF WritePart
  <2>2. content \in Stored \ damaged /\ Covered(content)
    BY <1>4 DEF WritePart, CoverInv, Stored, TypeOK
  <2>3. /\ files'[d].parts = files[d].parts \union {part}
        /\ \A e \in Stored \ {d} : files'[e] = files[e]
    BY <1>4, <2>1 DEF WritePart, TypeOK, Stored, File
  <2>4. files[content].parts \subseteq files'[content].parts
    BY <2>2, <2>3
  <2>5. ASSUME NEW other \in WritesOf(content), WroteAllSoFar(other)
        PROVE  WroteAllSoFar(other)' /\ calls'[other].content = content
    <3>1. CASE other = call
      <4>1. calls'[other] = Writing(d, part + 1)
        BY <1>4, <3>1 DEF WritePart, Becomes, TypeOK
      <4>2. calls'[other].at = "write" /\ calls'[other].content = d /\ calls'[other].part = part + 1
        BY <4>1 DEF Writing
      <4>3. d = content
        BY <3>1 DEF WritesOf
      <4>4. ASSUME NEW p \in 1 .. Parts, p < part + 1 PROVE p \in files'[d].parts
        <5>1. CASE p = part
          BY <2>3, <5>1
        <5>2. CASE p # part
          <6>1. p < part
            BY <2>1, <4>4, <5>2
          <6> QED BY <2>3, <2>5, <3>1, <6>1 DEF WroteAllSoFar
        <5> QED BY <5>1, <5>2
      <4> QED BY <4>2, <4>3, <4>4 DEF WroteAllSoFar
    <3>2. CASE other # call
      <4>1. calls'[other] = calls[other]
        BY <1>4, <2>5, <3>2 DEF WritePart, Becomes, TypeOK, WritesOf
      <4>2. calls[other].content = content
        BY <2>5 DEF WritesOf
      <4> QED BY <2>4, <2>5, <4>1, <4>2 DEF WroteAllSoFar
    <3> QED BY <3>1, <3>2
  <2> QED BY <2>2, <2>4, <2>5, CoverKept
<1>5. ASSUME NEW call \in Calls, WriteFails(call) PROVE Covered(content)'
  <2>1. content \in Stored \ damaged /\ content # calls[call].content /\ files' = files
    BY <1>5 DEF WriteFails, Stored
  <2>2. \A other \in WritesOf(content) : calls'[other] = calls[other]
    BY <1>5, <2>1 DEF WriteFails, Becomes, WritesOf, TypeOK
  <2>3. \A other \in WritesOf(content) :
          WroteAllSoFar(other) => WroteAllSoFar(other)' /\ calls'[other].content = content
    BY <2>1, <2>2 DEF WroteAllSoFar, WritesOf
  <2> QED BY <2>1, <2>3, CoverKept DEF CoverInv
<1>6. ASSUME NEW call \in Calls, TellExpiry(call) PROVE Covered(content)'
  <2>1. content \in Stored \ damaged /\ Covered(content) /\ files' = files
    BY <1>6 DEF TellExpiry, CoverInv, Stored
  <2>2. CASE files[content].parts = Whole
    BY <2>1, <2>2 DEF Covered
  <2>3. ASSUME NEW other \in Calls, WroteAllSoFar(other), calls[other].content = content
        PROVE  Covered(content)'
    <3>1. CASE other = call
      <4>1. calls[call].part > Parts /\ calls[call].part \in 1 .. Parts + 1
        BY <1>6, CallType DEF TellExpiry
      <4>2. \A part \in 1 .. Parts : part < calls[call].part
        BY <4>1
      <4>3. Whole \subseteq files[content].parts
        BY <2>3, <3>1, <4>2 DEF WroteAllSoFar, Whole
      <4>4. files[content].parts = Whole
        BY <2>1, <4>3, FileType
      <4> QED BY <2>1, <4>4 DEF Covered
    <3>2. CASE other # call
      <4>1. calls'[other] = calls[other]
        BY <1>6, <3>2 DEF TellExpiry, Becomes, TypeOK
      <4> QED BY <2>1, <2>3, <4>1 DEF Covered, WroteAllSoFar
    <3> QED BY <3>1, <3>2
  <2> QED BY <2>1, <2>2, <2>3 DEF Covered
<1>7. ASSUME NEW call \in Calls, NEW d \in Contents, StatFile(call, d) PROVE Covered(content)'
  BY <1>2, <1>7 DEF StatFile, Idle
<1>8. ASSUME NEW call \in Calls, CheckExpiry(call) \/ ReadFile(call) \/ Return(call)
      PROVE  Covered(content)'
  BY <1>2, <1>8 DEF CheckExpiry, ReadFile, Return
<1>9. CASE Crash
  <2>1. content \in Stored \ damaged /\ Covered(content) /\ files' = files /\ content \in Contents
    BY <1>9, FileType DEF Crash, CoverInv, Stored
  <2>2. CASE files[content].parts = Whole
    BY <2>1, <2>2 DEF Covered
  <2>3. ASSUME NEW call \in Calls, WroteAllSoFar(call), calls[call].content = content
        PROVE  Covered(content)'
    <3>1. call \in WritesOf(content) /\ calls[call].part \in 1 .. Parts + 1
      BY <2>3, CallType DEF WritesOf, WroteAllSoFar
    <3>2. ~(calls[call].part <= Parts)
      BY <1>9, <2>1, <3>1 DEF Crash
    <3>3. \A part \in 1 .. Parts : part < calls[call].part
      BY <3>1, <3>2
    <3>4. Whole \subseteq files[content].parts
      BY <2>3, <3>3 DEF WroteAllSoFar, Whole
    <3>5. files[content].parts = Whole
      BY <2>1, <3>4, FileType
    <3> QED BY <2>1, <3>5 DEF Covered
  <2> QED BY <2>1, <2>2, <2>3 DEF Covered
<1>10. CASE Tick
  BY <1>1, <1>10 DEF Tick
<1>11. CASE UNCHANGED vars
  BY <1>1, <1>11 DEF vars
<1> QED BY <1>3, <1>4, <1>5, <1>6, <1>7, <1>8, <1>9, <1>10, <1>11 DEF Next

(***************************************************************************)
(* However many calls write the same result at once, its file is whole     *)
(* when none of them is left, unless one of them ended half-way and none   *)
(* opened the file since.                                                  *)
(***************************************************************************)
THEOREM FilesWhole == Spec => []WholeUnlessWritten
<1>1. Init => CoverInv
  BY DEF Init, CoverInv, Stored
<1>2. CoverInv => WholeUnlessWritten
  BY DEF CoverInv, Covered, WholeUnlessWritten, WritesOf, WroteAllSoFar
<1> QED BY <1>1, <1>2, TypeCorrect, CoverStep, PTL DEF Spec

=============================================================================
