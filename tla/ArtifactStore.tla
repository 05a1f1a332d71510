--------------------------- MODULE ArtifactStore ---------------------------
(***************************************************************************)
(* The artifact store of the MCP server (security.rs): large results are   *)
(* put in files named by the digest of their content, for Ttl seconds.     *)
(* serve_http runs requests in parallel (a multi-threaded runtime), so the *)
(* calls of write_artifact and read_artifact interleave.                   *)
(*                                                                         *)
(* The digest has no collisions: a content stands for its digest and for   *)
(* the name of its file.  fs::write opens the file and cuts it to nothing, *)
(* then writes its Parts; fs::read takes what is there at one moment.      *)
(***************************************************************************)
EXTENDS Integers, FiniteSets, Functions

CONSTANTS
  Calls,     \* the calls that may be under way at once
  Contents,  \* the results that go to the store (pack_data)
  Fitting,   \* those within artifact_max_bytes
  Parts,     \* the writes it takes to write a result
  Ttl,       \* artifact_ttl_secs
  MaxTime    \* bound on the clock

ASSUME StoreAssumption ==
  Parts \in Nat \ {0} /\ Ttl \in Nat /\ MaxTime \in Nat /\ Fitting \subseteq Contents

VARIABLES
  clock,     \* the system time, in seconds; it is not set back
  files,     \* content -> [parts, mtime], for the files there are
  calls,     \* the state of each call
  promised,  \* content -> the latest expires_at a caller was told
             \*   (0 for none; kept for the properties)
  damaged    \* contents with a write that ended half-way since the last open
             \*   (kept for the properties)

vars == <<clock, files, calls, promised, damaged>>

Stored == DOMAIN files
Whole  == 1 .. Parts

Idle == [at |-> "idle"]
Writing(content, part) == [at |-> "write", content |-> content, part |-> part]
Checking(content) ==
  [at |-> "check", content |-> content, mtime |-> files[content].mtime,
   promise |-> promised[content]]
Reading(content, promise) == [at |-> "read", content |-> content, promise |-> promise]
Refused(promise) == [at |-> "refused", time |-> clock, promise |-> promise]
Served(content, promise) ==
  [at |-> "served", parts |-> files[content].parts, promise |-> promise]

Becomes(call, state) == calls' = [calls EXCEPT ![call] = state]
WritesOf(content) ==
  {call \in Calls : calls[call].at = "write" /\ calls[call].content = content}

-----------------------------------------------------------------------------
(***************************************************************************)
(* write_artifact.                                                         *)
(***************************************************************************)
\* fs::write opens the file; mtime is set even if the file was there.
OpenFile(call, content) ==
  /\ calls[call] = Idle
  /\ content \in Fitting
  /\ files' = [d \in Stored \union {content} |->
                 IF d = content THEN [parts |-> {}, mtime |-> clock] ELSE files[d]]
  /\ Becomes(call, Writing(content, 1))
  /\ damaged' = damaged \ {content}
  /\ UNCHANGED <<clock, promised>>

\* Mutant: one write too many.
WritePartBeyond(call) ==
  /\ calls[call].at = "write"
  /\ LET content == calls[call].content
         part    == calls[call].part
     IN  /\ files' = [files EXCEPT ![content] = [parts |-> @.parts \union {part}, mtime |-> clock]]
         /\ Becomes(call, Writing(content, part + 1))
  /\ UNCHANGED <<clock, promised, damaged>>

WritePart(call) ==
  /\ calls[call].at = "write" /\ calls[call].part <= Parts
  /\ LET content == calls[call].content
         part    == calls[call].part
     IN  /\ files' = [files EXCEPT ![content] = [parts |-> @.parts \union {part}, mtime |-> clock]]
         /\ Becomes(call, Writing(content, part + 1))
  /\ UNCHANGED <<clock, promised, damaged>>

\* A write that fails (a full disk, say) is an error; the file stays as it is.
WriteFails(call) ==
  /\ calls[call].at = "write" /\ calls[call].part <= Parts
  /\ Becomes(call, Idle)
  /\ damaged' = damaged \union {calls[call].content}
  /\ UNCHANGED <<clock, files, promised>>

\* Mutant: the expiry is computed from the time the caller is told.
TellExpiryFromNow(call) ==
  /\ calls[call].at = "write" /\ calls[call].part > Parts
  /\ LET content == calls[call].content
     IN  promised' = [promised EXCEPT ![content] = IF @ < clock + Ttl THEN clock + Ttl ELSE @]
  /\ Becomes(call, Idle)
  /\ UNCHANGED <<clock, files, damaged>>

\* Mutant: the caller is told before the last write.
TellBeforeEnd(call) ==
  /\ calls[call].at = "write" /\ calls[call].part = Parts
  /\ LET content == calls[call].content
         expiry  == files[content].mtime + Ttl
     IN  promised' = [promised EXCEPT ![content] = IF @ < expiry THEN expiry ELSE @]
  /\ Becomes(call, Idle)
  /\ UNCHANGED <<clock, files, damaged>>

\* The caller is told an expiry computed from the file's time as it is now.
TellExpiry(call) ==
  /\ calls[call].at = "write" /\ calls[call].part > Parts
  /\ LET content == calls[call].content
         expiry  == files[content].mtime + Ttl
     IN  promised' = [promised EXCEPT ![content] = IF @ < expiry THEN expiry ELSE @]
  /\ Becomes(call, Idle)
  /\ UNCHANGED <<clock, files, damaged>>

-----------------------------------------------------------------------------
(***************************************************************************)
(* read_artifact.                                                          *)
(***************************************************************************)
IsExpired(mtime) == Ttl = 0 \/ clock < mtime \/ clock - mtime >= Ttl

StatFile(call, content) ==
  /\ calls[call] = Idle
  /\ IF content \in Stored
     THEN Becomes(call, Checking(content))
     ELSE Becomes(call, Refused(promised[content]))
  /\ UNCHANGED <<clock, files, promised, damaged>>

CheckExpiry(call) ==
  /\ calls[call].at = "check"
  /\ IF IsExpired(calls[call].mtime)
     THEN Becomes(call, Refused(calls[call].promise))
     ELSE Becomes(call, Reading(calls[call].content, calls[call].promise))
  /\ UNCHANGED <<clock, files, promised, damaged>>

\* The content is not compared with its name.
ReadFile(call) ==
  /\ calls[call].at = "read"
  /\ Becomes(call, Served(calls[call].content, calls[call].promise))
  /\ UNCHANGED <<clock, files, promised, damaged>>

\* The answer is delivered.
Return(call) ==
  /\ calls[call].at \in {"refused", "served"}
  /\ Becomes(call, Idle)
  /\ UNCHANGED <<clock, files, promised, damaged>>

-----------------------------------------------------------------------------
\* The server stops and is started again: the calls are lost, the files stay.
Crash ==
  /\ calls # [call \in Calls |-> Idle]
  /\ calls' = [call \in Calls |-> Idle]
  /\ damaged' = damaged \union
       {content \in Contents : \E call \in WritesOf(content) : calls[call].part <= Parts}
  /\ UNCHANGED <<clock, files, promised>>

Tick ==
  /\ clock < MaxTime
  /\ clock' = clock + 1
  /\ UNCHANGED <<files, calls, promised, damaged>>

-----------------------------------------------------------------------------
Init ==
  /\ clock = 0
  /\ files = [content \in {} |-> [parts |-> {}, mtime |-> 0]]
  /\ calls = [call \in Calls |-> Idle]
  /\ promised = [content \in Contents |-> 0]
  /\ damaged = {}

Next ==
  \/ \E call \in Calls :
       \/ \E content \in Contents : OpenFile(call, content) \/ StatFile(call, content)
       \/ WritePart(call) \/ WriteFails(call) \/ TellExpiry(call)
       \/ CheckExpiry(call) \/ ReadFile(call) \/ Return(call)
  \/ Crash
  \/ Tick

Spec == Init /\ [][Next]_vars

-----------------------------------------------------------------------------
(***************************************************************************)
(* Properties.                                                             *)
(***************************************************************************)
File == [parts: SUBSET Whole, mtime: Nat]

Call ==
  {Idle}
    \union [at: {"write"}, content: Contents, part: 1 .. Parts + 1]
    \union [at: {"check"}, content: Contents, mtime: Nat, promise: Nat]
    \union [at: {"read"}, content: Contents, promise: Nat]
    \union [at: {"refused"}, time: Nat, promise: Nat]
    \union [at: {"served"}, parts: SUBSET Whole, promise: Nat]

TypeOK ==
  /\ clock \in Nat
  /\ Stored \subseteq Contents /\ files \in [Stored -> File]
  /\ calls \in [Calls -> Call]
  /\ \A call \in Calls :
       calls[call].at \in {"write", "check", "read"} => calls[call].content \in Stored
  /\ promised \in [Contents -> Nat]
  /\ damaged \subseteq Stored

(***************************************************************************)
(* The expires_at a caller of write_artifact was told is kept: a read that *)
(* begins after that, and before that time, is neither "not found" nor     *)
(* "expired", whoever writes the same content meanwhile.                   *)
(***************************************************************************)
PromiseKept == \A call \in Calls :
  calls[call].at = "refused" => calls[call].promise <= calls[call].time

(***************************************************************************)
(* A file lacks a part of its content only while it is written, or since a *)
(* write of it ended half-way: writers of the same content, each opening   *)
(* and cutting the same file, always leave it whole when they all end.     *)
(***************************************************************************)
WholeUnlessWritten == \A content \in Stored \ damaged :
  WritesOf(content) = {} => files[content].parts = Whole

(***************************************************************************)
(* An artifact whose address was given out is the content it is named for  *)
(* whenever it is read (content addressing, docs/rfc/0001-shapeport.md     *)
(* 17.5).  The code does not keep this: a writer of the same content cuts  *)
(* the file first.                                                         *)
(***************************************************************************)
ServedWhole == \A call \in Calls :
  calls[call].at = "served" /\ calls[call].promise > 0 => calls[call].parts = Whole

=============================================================================
