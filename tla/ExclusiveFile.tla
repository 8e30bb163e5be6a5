--------------------------- MODULE ExclusiveFile ---------------------------
(***************************************************************************)
(* What the file cache promises to applications that write, without a word *)
(* about how: one of them at a time edits a file, in a draft of its own,   *)
(* and when it has closed the file the store has the draft.  The next one  *)
(* starts from there.                                                      *)
(***************************************************************************)
CONSTANTS
    Path,       \* files
    Handle,     \* who writes
    NULL

VARIABLES
    content,    \* file -> what the store has, NULL when nothing
    draft,      \* file -> what its last writer has made of it, NULL before
    holder      \* file -> who edits it, NULL when nobody does

vars == <<content, draft, holder>>

Init ==
    /\ content \in [Path -> {"old", NULL}]
    /\ draft  = [p \in Path |-> NULL]
    /\ holder = [p \in Path |-> NULL]

Begin(p, h) ==
    /\ holder[p] = NULL
    /\ holder' = [holder EXCEPT ![p] = h]
    /\ UNCHANGED <<content, draft>>

(* A draft starts empty, or as what the store has; the holder writes it.   *)
Edit(p, h, v) ==
    /\ holder[p] = h
    /\ draft' = [draft EXCEPT ![p] = v]
    /\ UNCHANGED <<content, holder>>

Truncate(p, h) == Edit(p, h, "empty")
Load(p, h)     == draft[p] = NULL /\ content[p] # NULL /\ Edit(p, h, content[p])
Write(p, h)    == draft[p] # NULL /\ Edit(p, h, h)

Publish(p, h) ==
    /\ holder[p] = h /\ draft[p] # NULL
    /\ content' = [content EXCEPT ![p] = draft[p]]
    /\ UNCHANGED <<draft, holder>>

End(p, h) ==
    /\ holder[p] = h /\ content[p] = draft[p]
    /\ holder' = [holder EXCEPT ![p] = NULL]
    /\ UNCHANGED <<content, draft>>

Next == \E p \in Path, h \in Handle :
    Begin(p, h) \/ Truncate(p, h) \/ Load(p, h) \/ Write(p, h)
    \/ Publish(p, h) \/ End(p, h)

(* Whoever edits a file publishes what it wrote and lets go.               *)
Fairness == \A p \in Path, h \in Handle :
    WF_vars(Publish(p, h)) /\ WF_vars(End(p, h))

Spec == Init /\ [][Next]_vars

FairSpec == Spec /\ Fairness
=============================================================================
