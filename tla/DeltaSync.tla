------------------------------- MODULE DeltaSync -------------------------------
(***************************************************************************)
(* The synchronisation at startup: start_dbapi_thread calls dbapi_update   *)
(* (dbapi.c), which asks Dropbox for a page of changes since its cursor    *)
(* and applies them to the tree of dbfat.c, until there are no more or a   *)
(* request fails; then main serves the image.                              *)
(*                                                                         *)
(* Dropbox is external: a journal of changes that grows while the client   *)
(* reads it.  A cursor is a position in it; the server may declare a       *)
(* cursor invalid (reset) and start from the beginning.                    *)
(***************************************************************************)
EXTENDS DirTree

CONSTANTS
  Changes,      \* changes the server may report: [path, metadata], the size of a
                \* file cut to FAT_MAX_FILE_SIZE, as dbapi.c:260-266 does
  Deleted,      \* the metadata of an entry that was removed: null
  PageSize,     \* entries in one response
  MaxJournal,   \* bound: changes there will be
  MaxResets     \* bound: cursors the server will declare invalid

VARIABLES
  cursor,    \* dbapi_cursor
  phase,     \* "request", "apply" or "serving"
  applied,   \* changes the tree is made of: the loop index i of dbapi_update
  page,      \* the response: the cursor it ends at, and has_more
  journal,   \* what happened in the Dropbox folder
  resets     \* cursors declared invalid so far

vars == <<tree, cursor, phase, applied, page, journal, resets>>

ASSUME DeltaAssumption ==
  /\ Deleted \notin Metadata
  /\ Changes \subseteq [path : Paths, metadata : Metadata \cup {Deleted}]
  /\ PageSize \in Nat \ {0} /\ MaxJournal \in Nat /\ MaxResets \in Nat

Init ==
  /\ TreeInit
  /\ cursor = 0
  /\ phase = "request"
  /\ applied = 0
  /\ page = [cursor |-> 0, has_more |-> FALSE]
  /\ journal = <<>>
  /\ resets = 0

(***************************************************************************)
(* Dropbox.                                                                *)
(***************************************************************************)
Change ==
  /\ Len(journal) < MaxJournal
  /\ \E change \in Changes : journal' = Append(journal, change)
  /\ UNCHANGED <<tree, cursor, phase, applied, page, resets>>

\* What a request from position start may return: the next entries, some if
\* there are any, and whether more will follow.
Responses(start) ==
  {[cursor |-> last, has_more |-> last < Len(journal)] :
     last \in {n \in start .. Len(journal) :
                 /\ n <= start + PageSize
                 /\ n = start => start = Len(journal)}}

(***************************************************************************)
(* dbapi_update.                                                           *)
(***************************************************************************)

\* The request succeeds and the cursor is good.
Respond ==
  /\ phase = "request"
  /\ \E response \in Responses(cursor) : page' = response
  /\ phase' = "apply"
  /\ UNCHANGED <<tree, cursor, applied, journal, resets>>

\* Mutant: a reset does not remove the entries of the local state.
RespondResetKeeping ==
  /\ phase = "request" /\ resets < MaxResets
  /\ \E response \in Responses(0) : page' = response
  /\ applied' = 0
  /\ resets' = resets + 1
  /\ phase' = "apply"
  /\ UNCHANGED <<tree, cursor, journal>>

\* The request succeeds with reset: the tree is emptied first.
RespondReset ==
  /\ phase = "request" /\ resets < MaxResets
  /\ \E response \in Responses(0) : page' = response
  /\ RemoveAllFileEntries
  /\ applied' = 0
  /\ resets' = resets + 1
  /\ phase' = "apply"
  /\ UNCHANGED <<cursor, journal>>

\* The next entry of the response.
ApplyEntry ==
  /\ phase = "apply" /\ applied < page.cursor
  /\ LET change == journal[applied + 1]
     IN  \/ /\ change.metadata # Deleted
            /\ AddFileEntry(change.path, change.metadata)
         \/ /\ change.metadata = Deleted
            /\ RemoveFileEntry(change.path)
  /\ applied' = applied + 1
  /\ UNCHANGED <<cursor, phase, page, journal, resets>>

\* Mutant: the cursor is not updated while more entries follow.
EndPageKeepingCursor ==
  /\ phase = "apply" /\ applied = page.cursor
  /\ cursor' = IF page.has_more THEN cursor ELSE page.cursor
  /\ applied' = cursor'
  /\ phase' = IF page.has_more THEN "request" ELSE "serving"
  /\ UNCHANGED <<tree, page, journal, resets>>

\* All entries are applied: the cursor is updated, and the loop of
\* start_dbapi_thread asks again if there is more.
EndPage ==
  /\ phase = "apply" /\ applied = page.cursor
  /\ cursor' = page.cursor
  /\ phase' = IF page.has_more THEN "request" ELSE "serving"
  /\ UNCHANGED <<tree, applied, page, journal, resets>>

\* The request fails: the loop ends, and the image is served as it is.
RequestFails ==
  /\ phase = "request"
  /\ phase' = "serving"
  /\ UNCHANGED <<tree, cursor, applied, page, journal, resets>>

-----------------------------------------------------------------------------

Update == Respond \/ RespondReset \/ ApplyEntry \/ EndPage \/ RequestFails

Next == Change \/ Update

Spec == Init /\ [][Next]_vars

\* The main thread runs, and curl ends every request after REQUEST_TIMEOUT.
FairSpec == Spec /\ WF_vars(Update)

(***************************************************************************)
(* What the changes mean: a namespace, kept without lists, sizes of        *)
(* directories or clusters.                                                *)
(***************************************************************************)
Dir == [is_dir |-> TRUE]
Node(metadata) ==
  IF metadata.is_dir THEN Dir
  ELSE [is_dir |-> FALSE, size |-> metadata.size, rev |-> metadata.rev]

Parents(path) == {SubSeq(path, 1, i) : i \in 1 .. Len(path) - 1}

\* A path is removed: whatever is at it or below it goes.
Without(space, path) ==
  [p \in {q \in DOMAIN space : ~IsPrefix(path, q)} |-> space[p]]

\* A path is put: its parents become directories, also in the place of files,
\* and what is below it stays only if a directory is put over a directory.
With(space, path, metadata) ==
  LET kept == IF path \in DOMAIN space /\ space[path].is_dir # metadata.is_dir
              THEN Without(space, path) ELSE space
  IN  [p \in DOMAIN kept \cup Parents(path) \cup {path} |->
         IF p = path THEN Node(metadata)
         ELSE IF p \in Parents(path) THEN Dir
         ELSE kept[p]]

\* The namespace after the first n changes.
Namespace(n) ==
  LET after[i \in 0 .. n] ==
        IF i = 0 THEN [p \in {} |-> Dir]
        ELSE LET change == journal[i]
             IN  IF change.metadata = Deleted
                 THEN Without(after[i - 1], change.path)
                 ELSE With(after[i - 1], change.path, change.metadata)
  IN  after[n]

\* The tree seen as a namespace.
View == [p \in DOMAIN tree \ {<<>>} |-> Node(tree[p])]

(***************************************************************************)
(* Properties.                                                             *)
(***************************************************************************)

\* The types of the client's state and of the journal.
TypeOK ==
  /\ TreeTypeOK
  /\ cursor \in 0 .. MaxJournal
  /\ phase \in {"request", "apply", "serving"}
  /\ applied \in 0 .. MaxJournal
  /\ page \in [cursor : 0 .. MaxJournal, has_more : BOOLEAN]
  /\ journal \in Seq(Changes)
  /\ resets \in 0 .. MaxResets

\* Between two calls of dbapi_update, and in what is served, the tree is the
\* namespace that the changes up to the cursor make: none was applied twice,
\* skipped or undone by a reset or a failed request, whatever happened in the
\* Dropbox folder meanwhile.
TreeMatchesCursor == phase # "apply" => View = Namespace(cursor)

\* The loop of start_dbapi_thread ends and the image is served, although changes
\* go on while it runs: every page brings the cursor forward.
ServingStarts == <>(phase = "serving")

================================================================================
