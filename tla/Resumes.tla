------------------------------- MODULE Resumes -------------------------------
(***************************************************************************)
(* The resumes of one user: storage objects in a few fixed slots and rows   *)
(* that describe them, written by tabs of ProfileView                       *)
(* (src/frontend/app/page.tsx) that talk to the storage and to the API      *)
(* (register, parse and delete in src/app/saas_main.py).  Replies get lost, *)
(* and a request runs on when its page has given it up.                     *)
(***************************************************************************)
EXTENDS Integers

CONSTANTS
    Tabs,
    Files,      \* contents, as good as their checksums
    None,
    Slots,      \* slots of the bucket, in order: resume-1.pdf and so on
    MaxIds      \* bound: rows that are ever made

VARIABLES
    object,     \* object[s]: the file stored in slot s
    row,        \* row[s]: the row of resumes for slot s
    ids,        \* rows made so far
    page,       \* page[t]: the upload of tab t
    call,       \* call[t]: the parse or delete request tab t has sent
    lost        \* ghost: a request has ended otherwise than its sender knows, or an
                \* upload and a deletion have overlapped

vars == <<object, row, ids, page, call, lost>>

Row  == [id : 1..MaxIds, sha : Files, parse : {"uploaded", "parsing", "parsed", "failed"},
         text : Files \cup {None}, active : BOOLEAN]

\* What is not there is neither a file nor a row.
ResumeAssumption ==
    Slots \subseteq Nat /\ MaxIds \in Nat /\ None \notin Files /\ None \notin Row

Page == [at : {"idle", "upload", "register", "remove"}, slot : Slots, file : Files]
Call == [kind : {"none", "parse", "delete"}, step : 1..3, id : 0..MaxIds, slot : Slots,
         sha : Files, data : Files \cup {None}]

TypeOK ==
    /\ object \in [Slots -> Files \cup {None}]
    /\ \A s \in Slots : row[s] = None \/ row[s] \in Row
    /\ \A r, s \in Slots : r # s /\ row[r] # None /\ row[s] # None => row[r].id # row[s].id
    /\ ids \in 0..MaxIds
    /\ page \in [Tabs -> Page]
    /\ call \in [Tabs -> Call]
    /\ lost \in BOOLEAN

Init ==
    /\ object = [s \in Slots |-> None]
    /\ row = [s \in Slots |-> None]
    /\ ids = 0
    /\ \E s \in Slots, f \in Files :
          /\ page = [t \in Tabs |-> [at |-> "idle", slot |-> s, file |-> f]]
          /\ call = [t \in Tabs |-> [kind |-> "none", step |-> 1, id |-> 0, slot |-> s,
                                     sha |-> f, data |-> None]]
    /\ lost = FALSE

-----------------------------------------------------------------------------
(* upload, in ProfileView *)

\* The first slot the listing of the bucket does not show.
ChooseSlot(t, f) ==
    /\ page[t].at = "idle"
    /\ \E s \in Slots :
          /\ object[s] = None
          /\ \A r \in Slots : r < s => object[r] # None
          /\ page' = [page EXCEPT ![t] = [at |-> "upload", slot |-> s, file |-> f]]
    /\ lost' = (lost \/ \E u \in Tabs : call[u].kind = "delete")
    /\ UNCHANGED <<object, row, ids, call>>

\* The storage does not overwrite; an error is final for the page.
Upload(t) ==
    LET s == page[t].slot IN
    /\ page[t].at = "upload"
    /\ \/ /\ object[s] = None
          /\ object' = [object EXCEPT ![s] = page[t].file]
          /\ \/ page' = [page EXCEPT ![t].at = "register"] /\ UNCHANGED lost
             \/ page' = [page EXCEPT ![t].at = "idle"] /\ lost' = TRUE
       \/ /\ page' = [page EXCEPT ![t].at = "idle"]
          /\ UNCHANGED <<object, lost>>
    /\ UNCHANGED <<row, ids, call>>

\* Mutant: the resumes that were active stay active.
AllActive(s) == row

OthersInactive(s) ==
    [r \in Slots |-> IF r # s /\ row[r] # None THEN [row[r] EXCEPT !.active = FALSE]
                                      ELSE row[r]]

\* Mutant: a row of the slot is never used again.
RowIdAnew(s) == ids + 1

RowId(s) == IF row[s] = None THEN ids + 1 ELSE row[s].id

\* register_resume, one transaction: a row of the slot is used again.
Registers(s, f) ==
    /\ object[s] # None
    /\ row[s] = None => ids < MaxIds
    /\ ids' = IF row[s] = None THEN ids + 1 ELSE ids
    /\ row' = [OthersInactive(s) EXCEPT ![s] =
                  [id |-> RowId(s), sha |-> f,
                   parse |-> "uploaded", text |-> None, active |-> TRUE]]

\* Mutant: the file of a refused registration is left behind.
GiveUp == "idle"

AfterFailure == "remove"

Register(t) ==
    /\ page[t].at = "register"
    /\ \/ /\ Registers(page[t].slot, page[t].file)
          /\ \/ page' = [page EXCEPT ![t].at = "idle"] /\ UNCHANGED lost
             \/ page' = [page EXCEPT ![t].at = AfterFailure] /\ lost' = TRUE
       \/ /\ page' = [page EXCEPT ![t].at = AfterFailure]   \* refused, or never arrived
          /\ UNCHANGED <<row, ids, lost>>
    /\ UNCHANGED <<object, call>>

\* The page takes its file back, by the name of the slot.
Remove(t) ==
    /\ page[t].at = "remove"
    /\ page' = [page EXCEPT ![t].at = "idle"]
    /\ \/ object' = [object EXCEPT ![page[t].slot] = None] /\ UNCHANGED lost
       \/ UNCHANGED object /\ lost' = TRUE
    /\ UNCHANGED <<row, ids, call>>

-----------------------------------------------------------------------------
(* parse_resume and delete_resume, one action per await *)

Ended(t) == call' = [call EXCEPT ![t].kind = "none", ![t].step = 1, ![t].data = None]

Asks(t, kind, s) ==
    /\ call[t].kind = "none"
    /\ row[s] # None
    /\ call' = [call EXCEPT ![t] = [kind |-> kind, step |-> 1, id |-> row[s].id, slot |-> s,
                                    sha |-> row[s].sha, data |-> None]]
    /\ lost' = (lost \/ (kind = "delete" /\ \E u \in Tabs : page[u].at # "idle"))
    /\ UNCHANGED <<object, row, ids, page>>

OfCall(t) == {s \in Slots : row[s] # None /\ row[s].id = call[t].id}

MarkParsing(t) ==
    /\ call[t].kind = "parse" /\ call[t].step = 1
    /\ row' = [s \in Slots |-> IF s \in OfCall(t) THEN [row[s] EXCEPT !.parse = "parsing"]
                               ELSE row[s]]
    /\ call' = [call EXCEPT ![t].step = 2]
    /\ UNCHANGED <<object, ids, page, lost>>

\* Without an object the request fails and the row stays as it is.
Download(t) ==
    /\ call[t].kind = "parse" /\ call[t].step = 2
    /\ IF object[call[t].slot] = None THEN Ended(t)
       ELSE call' = [call EXCEPT ![t].step = 3, ![t].data = object[call[t].slot]]
    /\ UNCHANGED <<object, row, ids, page, lost>>

\* Mutant: the checksum of the row is left as it was.
ChecksumKept(t, s) == row[s].sha

Checksum(t, s) == call[t].data

\* The file must be the one of the row that was read; it may also be unreadable.
Extract(t) ==
    /\ call[t].kind = "parse" /\ call[t].step = 3
    /\ \/ /\ call[t].data = call[t].sha
          /\ row' = [s \in Slots |-> IF s \in OfCall(t)
                        THEN [row[s] EXCEPT !.parse = "parsed", !.text = call[t].data,
                                            !.sha = Checksum(t, s)]
                        ELSE row[s]]
       \/ row' = [s \in Slots |-> IF s \in OfCall(t) THEN [row[s] EXCEPT !.parse = "failed"]
                                  ELSE row[s]]
    /\ Ended(t)
    /\ UNCHANGED <<object, ids, page, lost>>

DeleteObject(t) ==
    /\ call[t].kind = "delete" /\ call[t].step = 1
    /\ object' = [object EXCEPT ![call[t].slot] = None]
    /\ call' = [call EXCEPT ![t].step = 2]
    /\ UNCHANGED <<row, ids, page, lost>>

DeleteRow(t) ==
    /\ call[t].kind = "delete" /\ call[t].step = 2
    /\ row' = [s \in Slots |-> IF s \in OfCall(t) THEN None ELSE row[s]]
    /\ Ended(t)
    /\ UNCHANGED <<object, ids, page, lost>>

\* The server is stopped, or a query of it fails.
Dies(t) ==
    /\ call[t].kind # "none"
    /\ Ended(t)
    /\ lost' = TRUE
    /\ UNCHANGED <<object, row, ids, page>>

Next ==
    \E t \in Tabs :
        \/ \E f \in Files : ChooseSlot(t, f)
        \/ Upload(t) \/ Register(t) \/ Remove(t)
        \/ \E s \in Slots : Asks(t, "parse", s) \/ Asks(t, "delete", s)
        \/ MarkParsing(t) \/ Download(t) \/ Extract(t)
        \/ DeleteObject(t) \/ DeleteRow(t) \/ Dies(t)

Spec == Init /\ [][Next]_vars

-----------------------------------------------------------------------------
(* Properties *)

Quiet == \A t \in Tabs : page[t].at = "idle" /\ call[t].kind = "none"

\* The text a draft is written from is the text of the file whose checksum the row
\* carries, although a registration may replace the row while it is being parsed
\* (parse_resume).
TextMatchesChecksum == \A s \in Slots : row[s] # None /\ row[s].parse = "parsed"
                                        => row[s].text = row[s].sha

\* At most one resume is active, whatever tabs register and delete (register_resume).
OneActive == \A r, s \in Slots : row[r] # None /\ row[s] # None /\ row[r].active /\ row[s].active
                                 => r = s

SingleTab == \A t, u \in Tabs : t = u

\* If every request of a single tab was answered truly, and no upload overlapped a
\* deletion, a slot is taken in the storage exactly when it has a row: refused
\* registrations and deleted resumes leave nothing behind (upload, delete_resume).
NothingLeftBehind ==
    SingleTab /\ Quiet /\ ~lost => \A s \in Slots : (object[s] = None) <=> (row[s] = None)

\* A deletion takes away the row of the file it has deleted, and not the row of a
\* file that was put into the slot meanwhile (delete_resume).
\* Does not hold: see the README.
DeletesItsOwn ==
    [][\A s \in Slots : row[s] # None /\ row'[s] = None =>
          \E t \in Tabs : call[t].id = row[s].id /\ call[t].sha = row[s].sha]_vars

\* The active resume is one whose file exists: the registration verifies the object.
\* Does not hold: see the README.
ActiveHasFile == Quiet => \A s \in Slots : row[s] # None /\ row[s].active => object[s] # None
=============================================================================
