-------------------------- MODULE InstallOverlays --------------------------
(***************************************************************************)
(* scripts/install_overlays.py: every manifest entry is checked against the *)
(* package and the target tree first, then the pending ones are copied one  *)
(* by one.  The process may be killed at any point, also inside a copy, and *)
(* be started again; other programs may change a target between two runs.   *)
(***************************************************************************)
EXTENDS Integers, Sequences, SequencesExt

CONSTANTS
    Entries,      \* manifest['overlays'], in order
    Original,     \* entries with an original_sha256: they replace a file
    MaxRuns       \* bound: starts of the installer

ASSUME InstallAssumption ==
    MaxRuns \in Nat /\ Entries \in Seq(Range(Entries)) /\ Original \subseteq Range(Entries)

VARIABLES
    source,   \* source[e]: the packaged file has its manifest hash
    disk,     \* disk[e]: what is at e's target
    pending,  \* entries to copy
    next,     \* entries checked so far
    phase,    \* where the installer is
    before,   \* disk, when the run started
    runs      \* runs started

vars == <<source, disk, pending, next, phase, before, runs>>

Entry == Range(Entries)

\* A target is missing, the pinned original, the release's file, a copy cut short,
\* or anything else.
Contents == {"missing", "original", "release", "torn", "foreign"}

Init ==
    /\ source = [e \in Entry |-> TRUE]
    /\ disk \in [Entry -> Contents \ {"torn"}]
    /\ pending = <<>>
    /\ next = 0
    /\ phase = "idle"
    /\ before = disk
    /\ runs = 0

\* A run starts; the package or a target may have been changed since the last.
Start ==
    /\ phase = "idle"
    /\ runs < MaxRuns
    /\ runs' = runs + 1
    /\ source' \in {f \in [Entry -> BOOLEAN] : \E g \in Entry : \A e \in Entry \ {g} : f[e]}
    /\ \/ UNCHANGED disk
       \/ runs > 0 /\ \E e \in Entry, c \in {"missing", "original", "foreign"} :
            disk' = [disk EXCEPT ![e] = c]
    /\ before' = disk'
    /\ pending' = <<>> /\ next' = 0
    /\ phase' = "check"

\* Fault: an installed file is accepted without looking at its contents.
InstalledIfPresent(e) == disk[e] # "missing"

\* Fault: a file that is already the release's is unsupported too.
InstalledNever(e) == FALSE

Installed(e) == disk[e] = "release"

\* Only the pinned original is replaced, and only a new file is added.
Replaceable(e) ==
    IF e \in Original THEN disk[e] = "original" ELSE disk[e] = "missing"

Checking(e) == phase = "check" /\ next < Len(Entries) /\ e = Entries[next + 1]

CheckEntry ==
    \E e \in Entry :
        /\ Checking(e)
        /\ source[e] /\ (Installed(e) \/ Replaceable(e))
        /\ pending' = IF Installed(e) THEN pending ELSE Append(pending, e)
        /\ next' = next + 1
        /\ UNCHANGED <<source, disk, phase, before, runs>>

\* Release source mismatch, unsupported or missing upstream source.
Reject ==
    /\ \E e \in Entry : Checking(e) /\ ~(source[e] /\ (Installed(e) \/ Replaceable(e)))
    /\ phase' = "rejected"
    /\ UNCHANGED <<source, disk, pending, next, before, runs>>

\* Fault: an entry is copied before the later ones were checked.
MayCopyEarly == pending # <<>>

MayCopy == next = Len(Entries) /\ pending # <<>>

\* copyfile opens the target for writing, ...
OpenTarget ==
    /\ phase = "check" /\ MayCopy
    /\ disk' = [disk EXCEPT ![Head(pending)] = "torn"]
    /\ phase' = "copy"
    /\ UNCHANGED <<source, pending, next, before, runs>>

Remaining(p) == Tail(p)

\* ... and copies the bytes.
CopyBytes ==
    /\ phase = "copy"
    /\ disk' = [disk EXCEPT ![Head(pending)] = "release"]
    /\ pending' = Remaining(pending)
    /\ phase' = "check"
    /\ UNCHANGED <<source, next, before, runs>>

Finish ==
    /\ phase = "check" /\ next = Len(Entries) /\ pending = <<>>
    /\ phase' = "done"
    /\ UNCHANGED <<source, disk, pending, next, before, runs>>

\* Killed, or a write failed: what was copied stays.
Interrupt ==
    /\ phase \in {"check", "copy"}
    /\ phase' = "killed"
    /\ UNCHANGED <<source, disk, pending, next, before, runs>>

Again ==
    /\ phase \in {"done", "rejected", "killed"}
    /\ phase' = "idle"
    /\ UNCHANGED <<source, disk, pending, next, before, runs>>

Next ==
    \/ Start \/ CheckEntry \/ Reject \/ OpenTarget \/ CopyBytes \/ Finish
    \/ Interrupt \/ Again

Spec == Init /\ [][Next]_vars

-----------------------------------------------------------------------------
\* "A stale original must be rejected before any other module is replaced": a run
\* that rejects anything has changed nothing; a run that says it is done leaves the
\* whole release installed, whatever earlier runs were cut off in, a half-copied file
\* included; and what a run that was cut off between two copies has left is never a
\* reason to reject the next one.
OutcomeIsTrue ==
    /\ phase = "rejected" => disk = before
    /\ phase = "done" => \A e \in Entry : disk[e] = "release"
    /\ phase = "killed" /\ (\A e \in Entry : disk[e] # "torn") /\ pending # <<>>
         /\ next = Len(Entries)
       => \A e \in Entry : Installed(e) \/ Replaceable(e)
=============================================================================
