---------------------------- MODULE ProfileForm ----------------------------
(***************************************************************************)
(* The profile form of ProfileView (src/frontend/app/page.tsx): what it     *)
(* shows, what a refresh and a suggestion do to it, and what "Save profile" *)
(* sends.  The row of the database is what GET /profile answers, all        *)
(* columns included; PATCH /profile (ProfileUpdate in src/app/saas/         *)
(* schemas.py) refuses a body with any column that is not the user's.       *)
(***************************************************************************)
EXTENDS Naturals, FiniteSets

CONSTANTS
    Tabs,
    Plain,      \* fields that are sent when the form has them
    Filled,     \* fields that are always sent: years, year, skills, preferences
    Numbers,    \* those of them in which 0 can be written: years
    MaxSaves    \* bound: saves in all

Fields == Plain \cup Filled

FormAssumption == MaxSaves \in Nat /\ Plain \cap Filled = {} /\ Numbers \subseteq Filled

\* A value is blank, was typed, is a typed 0, or was read from the resume; a form
\* that never got the row has no value at all.
Values == {"blank", "stored", "typed", "zero", "resume"}
Shown  == Values \cup {"absent"}

VARIABLES
    row,        \* the profile in the database
    draft,      \* draft[t]: what the form of tab t has for each field
    loaded,     \* loaded[t]: the form holds a row, with the columns it is not to send
    suggested,  \* suggested[t]: the fields of which tab t has a suggestion
    reads,      \* reads[t]: the row an open refresh of tab t was answered with
    call,       \* call[t]: the save tab t waits for
    saves,
    refused,    \* ghost: a save was refused
    reviewed,   \* ghost: fields that were on the screen as suggested when saved
    typed,      \* ghost: typed[t]: what the user has written in the form
    wiped       \* ghost: fields a save changed that its user had not touched

vars == <<row, draft, loaded, suggested, reads, call, saves, refused, reviewed, typed, wiped>>

None == [state |-> "none"]
Rows == [Fields -> Values]
Body == [Fields -> Shown]

TypeOK ==
    /\ row \in Rows
    /\ draft \in [Tabs -> Body]
    /\ loaded \in [Tabs -> BOOLEAN]
    /\ \A t \in Tabs : loaded[t] => draft[t] \in Rows
    /\ suggested \in [Tabs -> SUBSET Fields]
    /\ reads \in [Tabs -> {None} \cup [state : {"read"}, row : Rows]]
    /\ call \in [Tabs -> {None} \cup [state : {"sent"}, body : Body, extra : BOOLEAN,
                                      mine : SUBSET Fields]
                              \cup [state : {"ok"}, row : Rows]]
    /\ saves \in 0..MaxSaves /\ refused \in BOOLEAN
    /\ reviewed \subseteq Fields /\ typed \in [Tabs -> SUBSET Fields] /\ wiped \subseteq Fields

Init ==
    /\ row \in [Fields -> {"blank", "stored"}]
    /\ draft = [t \in Tabs |-> [f \in Fields |-> "absent"]]
    /\ loaded = [t \in Tabs |-> FALSE]
    /\ suggested = [t \in Tabs |-> {}]
    /\ reads = [t \in Tabs |-> None] /\ call = [t \in Tabs |-> None]
    /\ saves = 0 /\ refused = FALSE
    /\ reviewed = {} /\ typed = [t \in Tabs |-> {}] /\ wiped = {}

-----------------------------------------------------------------------------

\* Mutant: the row is marked as loaded and the form keeps what it had.
TakeNothing(t, r) ==
    /\ loaded' = [loaded EXCEPT ![t] = TRUE] /\ UNCHANGED draft
    /\ typed' = [typed EXCEPT ![t] = {}]

\* Every new row becomes the draft, whatever was typed.
TakeRow(t, r) ==
    /\ draft' = [draft EXCEPT ![t] = r]
    /\ loaded' = [loaded EXCEPT ![t] = TRUE]
    /\ typed' = [typed EXCEPT ![t] = {}]

\* A request for the profile is answered; one that fails leaves the form alone.
ReadProfile(t) ==
    /\ reads' = [reads EXCEPT ![t] = [state |-> "read", row |-> row]]
    /\ UNCHANGED <<row, draft, loaded, suggested, call, saves, refused, reviewed, typed, wiped>>

RefreshLands(t) ==
    /\ reads[t] # None
    /\ TakeRow(t, reads[t].row)
    /\ reads' = [reads EXCEPT ![t] = None]
    /\ UNCHANGED <<row, suggested, call, saves, refused, reviewed, wiped>>

Update(t, f) ==
    /\ \E v \in {"typed"} \cup (IF f \in Numbers THEN {"zero"} ELSE {}) :
          draft' = [draft EXCEPT ![t][f] = v]
    /\ typed' = [typed EXCEPT ![t] = @ \cup {f}]
    /\ UNCHANGED <<row, loaded, suggested, reads, call, saves, refused, reviewed, wiped>>

\* A resume has been parsed or analysed; nothing is saved.
Parsed(t) ==
    /\ \E fs \in SUBSET Fields : suggested' = [suggested EXCEPT ![t] = fs]
    /\ UNCHANGED <<row, draft, loaded, reads, call, saves, refused, reviewed, typed, wiped>>

\* Mutant: suggestions replace what the user has written.
Any(t) == Fields

\* "!current[key]": a 0 counts as blank too.
Blank(t) == {f \in Fields : draft[t][f] \in {"blank", "absent", "zero"}}

ApplySuggestions(t) ==
    /\ suggested[t] # {}
    /\ draft' = [draft EXCEPT ![t] =
          [f \in Fields |-> IF f \in suggested[t] \cap Blank(t) THEN "resume" ELSE draft[t][f]]]
    /\ UNCHANGED <<row, loaded, suggested, reads, call, saves, refused, reviewed, typed, wiped>>

\* Mutant: a save takes the suggestions along.
PayloadWithSuggestions(t) ==
    [f \in Fields |-> IF f \in suggested[t] \cap Blank(t) THEN "resume"
                      ELSE IF f \in Filled /\ draft[t][f] = "absent" THEN "blank"
                      ELSE draft[t][f]]

\* What the form has, and a blank for years, skills and preferences it has not.
Payload(t) ==
    [f \in Fields |-> IF f \in Filled /\ draft[t][f] = "absent" THEN "blank" ELSE draft[t][f]]

SaveProfile(t) ==
    /\ call[t] = None /\ saves < MaxSaves /\ saves' = saves + 1
    /\ call' = [call EXCEPT ![t] = [state |-> "sent", body |-> Payload(t), extra |-> loaded[t],
           mine |-> typed[t] \cup {f \in Fields : draft[t][f] = "resume"}]]
    /\ reviewed' = reviewed \cup {f \in Fields : draft[t][f] = "resume"}
    /\ UNCHANGED <<row, draft, loaded, suggested, reads, refused, typed, wiped>>

\* The body may hold no column but those of ProfileUpdate.
StrictSchema(extra) == ~ extra

Stored(body) == [f \in Fields |-> IF body[f] = "absent" THEN row[f] ELSE body[f]]

PatchProfile(t) ==
    /\ call[t].state = "sent"
    /\ IF StrictSchema(call[t].extra)
       THEN LET new == Stored(call[t].body) IN
            /\ row' = new
            /\ call' = [call EXCEPT ![t] = [state |-> "ok", row |-> new]]
            /\ wiped' = wiped \cup {f \in Fields \ call[t].mine : new[f] # row[f]}
            /\ UNCHANGED refused
       ELSE /\ call' = [call EXCEPT ![t] = None] /\ refused' = TRUE
            /\ UNCHANGED <<row, wiped>>
    /\ UNCHANGED <<draft, loaded, suggested, reads, saves, reviewed, typed>>

SaveLands(t) ==
    /\ call[t].state = "ok"
    /\ TakeRow(t, call[t].row)
    /\ call' = [call EXCEPT ![t] = None]
    /\ UNCHANGED <<row, suggested, reads, saves, refused, reviewed, wiped>>

Next ==
    \E t \in Tabs :
       \/ ReadProfile(t) \/ RefreshLands(t) \/ Parsed(t) \/ ApplySuggestions(t)
       \/ SaveProfile(t) \/ PatchProfile(t) \/ SaveLands(t)
       \/ \E f \in Fields : Update(t, f)

Spec == Init /\ [][Next]_vars

-----------------------------------------------------------------------------
(* Properties. *)

\* What a resume suggests is stored only after it was on the screen when the user
\* saved, in whichever tab and however refreshes fall in between.
OnlyReviewedIsStored == \A f \in Fields : row[f] = "resume" => f \in reviewed

\* What the user has written since the form last took a row is what it shows, and
\* is what a save sends, suggestions included; but for a typed 0, which a suggestion
\* takes for a blank (see the README).
TypedIsSent ==
    \A t \in Tabs : \A f \in typed[t] \ Numbers :
        draft[t][f] = "typed" /\ Payload(t)[f] = draft[t][f]

\* "... the user reviews and saves the profile": a save is not refused for what the
\* page put into it itself.
\* Does not hold: see the README.
SaveIsAccepted == ~ refused

\* "Profile saved.": a save changes no field that its user neither wrote nor took
\* over from the resume.
\* Does not hold: see the README.
SaveKeepsTheRest == wiped = {}

\* RES-05, "... without silently overwriting non-blank user values": what was typed
\* or stored is not replaced by what was read from a resume.
\* Does not hold: see the README.
ResumeFillsBlanksOnly ==
    [][\A f \in Fields : row[f] \in {"stored", "typed", "zero"} => row'[f] # "resume"]_vars
=============================================================================
