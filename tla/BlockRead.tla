------------------------------ MODULE BlockRead -------------------------------
(***************************************************************************)
(* What the block cache of dbfiles.c promises to its callers, the FUSE     *)
(* threads: a call of read_sector_from_cache has one answer, and the       *)
(* answer is a failure or the content the request names.  Nothing is said  *)
(* of blocks, references, downloads or time.                               *)
(***************************************************************************)

CONSTANTS
  Readers,    \* the threads that read
  Requests,   \* what can be asked for
  ContentOf,  \* ContentOf[q]: the only content that answers request q
  NoRequest,  \* the thread is not in a call
  NoAnswer,   \* the call has no answer yet
  Failed      \* the call fails

VARIABLES
  asked,    \* asked[r]: the request of the call thread r is in
  answer    \* answer[r]: the answer of that call

Init ==
  /\ asked = [r \in Readers |-> NoRequest]
  /\ answer = [r \in Readers |-> NoAnswer]

Call(r) ==
  /\ asked[r] = NoRequest
  /\ \E q \in Requests : asked' = [asked EXCEPT ![r] = q]
  /\ UNCHANGED answer

Answer(r) ==
  /\ asked[r] # NoRequest
  /\ answer[r] = NoAnswer
  /\ \E a \in {Failed, ContentOf[asked[r]]} :
       answer' = [answer EXCEPT ![r] = a]
  /\ UNCHANGED asked

Return(r) ==
  /\ answer[r] # NoAnswer
  /\ asked' = [asked EXCEPT ![r] = NoRequest]
  /\ answer' = [answer EXCEPT ![r] = NoAnswer]

Next == \E r \in Readers : Call(r) \/ Answer(r) \/ Return(r)

Spec == Init /\ [][Next]_<<asked, answer>>

=============================================================================
