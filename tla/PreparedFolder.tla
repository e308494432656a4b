--------------------------- MODULE PreparedFolder ---------------------------
(***************************************************************************)
(* The folders that preparation writes (scripts/setup_files.py with its    *)
(* callers, portable_network_bundle.py, portable_application_bundle.py): a *)
(* record names the files of the folder by their digests and is written    *)
(* last, so that a folder whose preparation was interrupted has none.      *)
(*                                                                         *)
(* A bundle's files appear whole, by a link that fails where the name is   *)
(* taken or by a replacement; a kit's directory is claimed by its creation *)
(* and its files are written in place.  Nothing locks a folder: commands   *)
(* run at once and interleave between any two files, replacements too.     *)
(***************************************************************************)
EXTENDS Naturals

CONSTANTS
    Writers,
    Outputs,        \* the sets of names that are written together
    Versions,       \* contents
    None,
    MaxKills

VARIABLES
    kind,       \* "setup", "journey" or "kit": who prepares the folder
    claimed,    \* a kit's directory exists
    files,      \* contents by name
    record,     \* BUNDLE.json or manifest.json
    writer,     \* the commands
    kills,
    overlap     \* history: a replacement ran beside another command, and none alone since

vars == <<kind, claimed, files, record, writer, kills, overlap>>

Names == UNION Outputs
Absent == "absent"
Partial == "partial"
Idle == [pc |-> "idle", outputs |-> {}, left |-> {}, version |-> None, replace |-> FALSE]
NoRecord == [outputs |-> {}, version |-> None]

Init ==
    /\ kind \in {"setup", "journey", "kit"}
    /\ claimed = FALSE
    /\ files = [n \in Names |-> Absent]
    /\ record = NoRecord
    /\ writer = [w \in Writers |-> Idle]
    /\ kills = 0
    /\ overlap = FALSE

-----------------------------------------------------------------------------

\* Something that is about to be written exists.
Taken(outputs) == record # NoRecord \/ \E n \in outputs : files[n] # Absent

\* The setup asks for a replacement when it met something, a journey when there is a
\* record; a record of nothing but the resumed draft needs no question.
Asks(outputs) == IF kind = "setup" THEN Taken(outputs) ELSE record # NoRecord

Working(w) == writer[w].pc # "idle"
Beside(w) == \E x \in Writers \ {w} : Working(x)

\* A command starts to write, from the first name.
Enter(w, outputs, v, replace) ==
    /\ writer' = [writer EXCEPT ![w] = [pc |-> IF replace THEN "invalidate" ELSE "write",
                    outputs |-> outputs, left |-> outputs, version |-> v, replace |-> replace]]
    /\ overlap' = (overlap \/ \E x \in Writers \ {w} :
                                 Working(x) /\ (replace \/ writer[x].replace))

\* A bundle: what is there is found before anything is written; it is replaced on request.
BeginBundle(w, outputs, v) ==
    /\ kind # "kit" /\ ~Working(w)
    /\ Asks(outputs) \/ ~Taken(outputs)
    /\ Enter(w, outputs, v, Asks(outputs))
    /\ UNCHANGED <<kind, claimed, files, record, kills>>

\* A kit: the directory is created, and an existing one is refused.
BeginKit(w, v) ==
    /\ kind = "kit" /\ ~Working(w)
    /\ ~claimed
    /\ claimed' = TRUE
    /\ Enter(w, Names, v, FALSE)
    /\ UNCHANGED <<kind, files, record, kills>>

\* The record of what is about to be replaced goes first, if there is one.
FindRecord(w) ==
    /\ writer[w].pc = "invalidate"
    /\ writer' = [writer EXCEPT ![w].pc = IF record = NoRecord THEN "write" ELSE "unlink"]
    /\ overlap' = IF record = NoRecord THEN Beside(w) ELSE overlap
    /\ UNCHANGED <<kind, claimed, files, record, kills>>

\* A plausible mistake: the old record stays until the new one replaces it.
KeepRecord == record' = record
DropRecord == record' = NoRecord

Invalidate(w) ==
    /\ writer[w].pc = "unlink" /\ record # NoRecord
    /\ DropRecord
    /\ writer' = [writer EXCEPT ![w].pc = "write"]
    /\ overlap' = Beside(w)
    /\ UNCHANGED <<kind, claimed, files, kills>>

\* Another replacement has removed it in between: the command fails.
RecordGone(w) ==
    /\ writer[w].pc = "unlink" /\ record = NoRecord
    /\ writer' = [writer EXCEPT ![w] = Idle]
    /\ UNCHANGED <<kind, claimed, files, record, kills, overlap>>

\* A temporary file takes its name: exclusively, or in place of what was there.
WriteFile(w, n) ==
    /\ kind # "kit" /\ writer[w].pc = "write" /\ n \in writer[w].left
    /\ writer[w].replace \/ files[n] = Absent
    /\ files' = [files EXCEPT ![n] = writer[w].version]
    /\ writer' = [writer EXCEPT ![w].left = @ \ {n}]
    /\ UNCHANGED <<kind, claimed, record, kills, overlap>>

\* Another command took the name meanwhile.  A journey fails; the setup meets the same
\* exception as for files that were there before, and offers to replace them.
Refused(w) ==
    /\ kind # "kit" /\ writer[w].pc = "write" /\ ~writer[w].replace
    /\ IF writer[w].left = {} THEN record # NoRecord
       ELSE \E n \in writer[w].left : files[n] # Absent
    /\ \/ writer' = [writer EXCEPT ![w] = Idle] /\ UNCHANGED overlap
       \/ kind = "setup" /\ Enter(w, writer[w].outputs, writer[w].version, TRUE)
    /\ UNCHANGED <<kind, claimed, files, record, kills>>

\* A kit's file is created and then filled.
CreateFile(w, n) ==
    /\ kind = "kit" /\ writer[w].pc = "write" /\ n \in writer[w].left
    /\ files' = [files EXCEPT ![n] = Partial]
    /\ writer' = [writer EXCEPT ![w].pc = "fill", ![w].left = @ \ {n}]
    /\ UNCHANGED <<kind, claimed, record, kills, overlap>>

FillFile(w) ==
    /\ writer[w].pc = "fill"
    /\ files' = [n \in Names |-> IF files[n] = Partial THEN writer[w].version ELSE files[n]]
    /\ writer' = [writer EXCEPT ![w].pc = "write"]
    /\ UNCHANGED <<kind, claimed, record, kills, overlap>>

\* The record, last: a bundle's is exclusive as its files are.
WriteRecord(w) ==
    /\ writer[w].pc = "write" /\ writer[w].left = {}
    /\ kind = "kit" \/ writer[w].replace \/ record = NoRecord
    /\ record' = [outputs |-> writer[w].outputs, version |-> writer[w].version]
    /\ writer' = [writer EXCEPT ![w] = Idle]
    /\ UNCHANGED <<kind, claimed, files, kills, overlap>>

Kill(w) ==
    /\ Working(w)
    /\ kills < MaxKills /\ kills' = kills + 1
    /\ writer' = [writer EXCEPT ![w] = Idle]
    /\ UNCHANGED <<kind, claimed, files, record, overlap>>

Next ==
    \E w \in Writers :
        \/ \E outputs \in Outputs, v \in Versions : BeginBundle(w, outputs, v)
        \/ \E v \in Versions : BeginKit(w, v)
        \/ FindRecord(w) \/ Invalidate(w) \/ RecordGone(w)
        \/ \E n \in Names : WriteFile(w, n) \/ CreateFile(w, n)
        \/ FillFile(w) \/ Refused(w) \/ WriteRecord(w) \/ Kill(w)

Spec == Init /\ [][Next]_vars

-----------------------------------------------------------------------------

\* verify() of a kit, and a journey's check of its draft: the record matches the files.
Genuine(r) == \A n \in r.outputs : files[n] = r.version

\* Every file that a record names is there and whole, whatever was interrupted, replaced or
\* prepared at the same time, and a kit's record names all of its files with their content.  A
\* bundle's files have the recorded content unless a replacement ran beside another command,
\* for nothing locks a folder: such a mixture lasts until the next replacement that is alone.
RecordGenuine ==
    record # NoRecord =>
        /\ \A n \in record.outputs : files[n] \in Versions
        /\ ~overlap => Genuine(record)
        /\ kind = "kit" => Genuine(record) /\ record.outputs = Names
=============================================================================
