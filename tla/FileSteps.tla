----------------------------- MODULE FileSteps -----------------------------
(* The file-system calls of the firmware's file operations, as operators on
   `files', the function from the names in use to their contents.

   An operation of the menu is a sequence of calls.  A call [kind, from, to,
   chained] is made unless it is chained, the && of the code, and the call
   before it failed.  unlink() and rename() are the system's; whether rename()
   replaces a file of the new name is not said in the code: it is chosen once
   for all.                                                                 *)
EXTENDS Sequences

Absent == "absent"

Exists(files, name) == files[name] # Absent

(* rename(a, b) && rename(c, d): how a file is replaced by another. *)
Ren(a, b)   == [kind |-> "rename", from |-> a, to |-> b, chained |-> FALSE]
AndRen(a, b) == [kind |-> "rename", from |-> a, to |-> b, chained |-> TRUE]
Unlink(a)   == [kind |-> "unlink", from |-> a, to |-> a, chained |-> FALSE]
Copy(a, b)  == [kind |-> "copy", from |-> a, to |-> b, chained |-> FALSE]

Replace(name, old, new) == <<Ren(name, old), AndRen(new, name)>>

(* What a call does that nothing disturbs, and whether it reports success.
   file_copy() makes an empty file of a source that is not there.           *)
Possible(files, c, replaces) ==
  CASE c.kind = "rename" ->
         Exists(files, c.from) /\ (replaces \/ ~Exists(files, c.to))
    [] c.kind = "unlink" -> Exists(files, c.from)
    [] c.kind = "copy" -> TRUE

Effect(files, c) ==
  CASE c.kind = "rename" -> [files EXCEPT ![c.to] = files[c.from], ![c.from] = Absent]
    [] c.kind = "unlink" -> [files EXCEPT ![c.from] = Absent]
    [] c.kind = "copy" ->
         [files EXCEPT ![c.to] = IF Exists(files, c.from) THEN files[c.from] ELSE "empty"]

(* What a call leaves behind that fails.  file_copy() removes what it has
   written, or keeps it without noticing what is missing.                   *)
Failures(files, c) ==
  IF c.kind = "copy"
    THEN { [files EXCEPT ![c.to] = Absent], [files EXCEPT ![c.to] = "short"] }
    ELSE { files }

=============================================================================
