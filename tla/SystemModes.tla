---------------------------- MODULE SystemModes ----------------------------
(* The column "Selector": the modes of the firmware, each of them a matter of
   which file has which name (apply_settings(), toolbox.cpp 11584-11914 and
   11973-12027), and how check_settings() tells them from the names
   (9109-9269).  Every call may fail, the power may go between two calls, and
   the program sees no more of it than the names it finds afterwards.       *)
EXTENDS FileSteps, FiniteSets, Integers

CONSTANTS MaxChoices,  \* bound: choices made in the column
          MaxFaults    \* bound: failing calls and power cuts

Names == {"vsh", "vsh.swp", "vsh.nrm", "vsh.cexsp", "vsh.dexsp",
          "index", "index.swp", "index.nrm",
          "version", "version.swp", "version.nrm",
          "sysconf", "sysconf.cex", "sysconf.dex",
          "stage2.cex", "stage2.cex.bak", "stage2.dex", "stage2.dex.bak",
          "webftp", "webftp.bak",
          "xai", "xai.bak", "rco", "rco.bak",
          "net", "net.org", "net.cfw", "tool2", "tool2.org", "tool2.cfw"}

ModeNames == {"rebug", "xmb", "menu", "cobra", "webman", "cfw"}

VARIABLES files,      \* what is under which name
          mode,       \* rebug_mode, xmb_mode, ...: 0 or 1
          job,        \* the calls the operation has still to make
          chain,      \* no call failed since the last unchained one
          clean,      \* no call of the choice failed
          choice,     \* <<mode, value>> being made, or None
          status,     \* the outcome of the last choice, as its dialog has it
          phase,      \* "run", "down" (no XMB without vsh.self)
          replaces,   \* rename() replaces an existing file
          choices, faults

vars == <<files, mode, job, chain, clean, choice, status, phase, replaces, choices, faults>>

None == <<"none", 0>>

(* check_settings(): a mode no file tells keeps its value. *)
Read(f, old) ==
  LET has(n) == Exists(f, n)
      normal == has("vsh.swp")
      tell(on, off, m) == IF has(on) THEN 1 ELSE IF has(off) THEN 0 ELSE old[m]
  IN [ rebug  |-> IF normal THEN 0 ELSE 1,
       xmb    |-> IF ~normal /\ has("vsh.dexsp") THEN 0 ELSE 1,
       menu   |-> IF has("sysconf.cex") THEN 1 ELSE 0,
       cobra  |-> tell("stage2.cex", "stage2.cex.bak", "cobra"),
       webman |-> tell("webftp", "webftp.bak", "webman"),
       cfw    |-> tell("net.org", "net.cfw", "cfw") ]

(* REBUG firmware as it is installed: REBUG mode, debug XMB, DEX menu. *)
Installed ==
  [ n \in Names |->
      CASE n = "vsh" -> "debug" [] n = "vsh.nrm" -> "normal"
        [] n = "vsh.cexsp" -> "retail"
        [] n \in {"index", "version"} -> "rebug"
        [] n \in {"index.nrm", "version.nrm"} -> "normal"
        [] n = "sysconf" -> "dex" [] n = "sysconf.cex" -> "cex"
        [] n \in {"stage2.cex", "stage2.dex", "webftp", "xai", "rco"} -> n
        [] n \in {"net", "tool2"} -> "cfw"
        [] n \in {"net.org", "tool2.org"} -> "org"
        [] OTHER -> Absent ]

Init ==
  /\ files = Installed
  /\ mode = Read(files, [ m \in ModeNames |-> 0 ])
  /\ job = <<>>
  /\ chain = TRUE
  /\ clean = TRUE
  /\ choice = None
  /\ status = "none"
  /\ phase = "run"
  /\ replaces \in BOOLEAN
  /\ choices = 0
  /\ faults = 0

-----------------------------------------------------------------------------
(* The calls of each choice; no calls when the names are not as it needs. *)
SysconfToCex == Replace("sysconf", "sysconf.dex", "sysconf.cex")

RebugCalls(v) ==
  IF v = 0
    THEN IF Exists(files, "vsh.nrm")
           THEN Replace("vsh", "vsh.swp", "vsh.nrm")
                \o Replace("index", "index.swp", "index.nrm")
                \o Replace("version", "version.swp", "version.nrm")
           ELSE <<>>
    ELSE IF Exists(files, "vsh.swp")
           THEN (IF Exists(files, "vsh.dexsp") /\ Exists(files, "sysconf.cex")
                   THEN SysconfToCex ELSE <<>>)
                \o Replace("vsh", "vsh.nrm", "vsh.swp")
                \o Replace("index", "index.nrm", "index.swp")
                \o Replace("version", "version.nrm", "version.swp")
           ELSE <<>>

(* Retail XMB takes the CEX menu with it, if the swap of vsh.self succeeds. *)
XmbCalls(v) ==
  IF mode.rebug = 0 \/ ~Exists(files, "vsh.nrm") THEN <<>>
  ELSE IF v = 0
    THEN IF Exists(files, "vsh.cexsp")
           THEN Replace("vsh", "vsh.dexsp", "vsh.cexsp")
                \o (IF mode.menu = 0
                      THEN <<AndRen("sysconf", "sysconf.dex"),
                             AndRen("sysconf.cex", "sysconf")>>
                      ELSE <<>>)
           ELSE <<>>
    ELSE IF Exists(files, "vsh.dexsp")
           THEN Replace("vsh", "vsh.cexsp", "vsh.dexsp") ELSE <<>>

MenuCalls(v) ==
  IF v = 0
    THEN IF Exists(files, "sysconf.cex") THEN SysconfToCex ELSE <<>>
    ELSE IF Exists(files, "sysconf.dex")
           THEN Replace("sysconf", "sysconf.cex", "sysconf.dex") ELSE <<>>

(* COBRA's files and their names while it is disabled. *)
Bak(n) == IF n = "stage2.cex" THEN "stage2.cex.bak" ELSE "stage2.dex.bak"

(* Mutant: enabling forgets the second file. *)
CobraCallsForget(v) ==
  LET from(n) == IF v = 1 THEN Bak(n) ELSE n
      one(n) == <<IF v = 1 THEN Ren(Bak(n), n) ELSE Ren(n, Bak(n))>>
  IN IF ~Exists(files, from("stage2.cex")) THEN <<>>
     ELSE one("stage2.cex") \o (IF v = 0 THEN one("stage2.dex") ELSE <<>>)

(* The second file is renamed only if it is there; no result is looked at. *)
CobraCalls(v) ==
  LET from(n) == IF v = 1 THEN Bak(n) ELSE n
      one(n) == <<IF v = 1 THEN Ren(Bak(n), n) ELSE Ren(n, Bak(n))>>
  IN IF ~Exists(files, from("stage2.cex")) THEN <<>>
     ELSE one("stage2.cex")
          \o (IF Exists(files, from("stage2.dex")) THEN one("stage2.dex") ELSE <<>>)

WebmanCalls(v) ==
  IF v = 0 THEN IF Exists(files, "webftp") THEN <<Ren("webftp", "webftp.bak")>> ELSE <<>>
  ELSE IF Exists(files, "webftp.bak") THEN <<Ren("webftp.bak", "webftp")>> ELSE <<>>

(* Mutant: the plug-in is brought back before the other one has left. *)
CfwCallsNewFirst(v) ==
  LET now == Read(files, [mode EXCEPT !.cfw = v]).cfw
  IN IF now = 1 /\ Exists(files, "tool2.org")
       THEN <<Ren("xai", "xai.bak"), Ren("rco", "rco.bak"),
              Ren("net.org", "net"), Ren("net", "net.cfw"),
              Ren("tool2", "tool2.cfw"), Ren("tool2.org", "tool2")>>
     ELSE IF now = 0 /\ \A n \in {"tool2.cfw", "xai.bak", "rco.bak"} : Exists(files, n)
       THEN <<Ren("xai.bak", "xai"), Ren("rco.bak", "rco"),
              Ren("net", "net.org"), Ren("net.cfw", "net"),
              Ren("tool2", "tool2.org"), Ren("tool2.cfw", "tool2")>>
     ELSE <<>>

(* The value chosen gives way to what the names say, if they say anything.  *)
CfwCalls(v) ==
  LET now == Read(files, [mode EXCEPT !.cfw = v]).cfw
  IN IF now = 1 /\ Exists(files, "tool2.org")
       THEN <<Ren("xai", "xai.bak"), Ren("rco", "rco.bak"),
              Ren("net", "net.cfw"), Ren("net.org", "net"),
              Ren("tool2", "tool2.cfw"), Ren("tool2.org", "tool2")>>
     ELSE IF now = 0 /\ \A n \in {"tool2.cfw", "xai.bak", "rco.bak"} : Exists(files, n)
       THEN <<Ren("xai.bak", "xai"), Ren("rco.bak", "rco"),
              Ren("net", "net.org"), Ren("net.cfw", "net"),
              Ren("tool2", "tool2.org"), Ren("tool2.cfw", "tool2")>>
     ELSE <<>>

Calls(m, v) ==
  CASE m = "rebug" -> RebugCalls(v)
    [] m = "xmb" -> XmbCalls(v)
    [] m = "menu" -> MenuCalls(v)
    [] m = "cobra" -> CobraCalls(v)
    [] m = "webman" -> WebmanCalls(v)
    [] m = "cfw" -> CfwCalls(v)

(* The names whose renaming decides what the dialog says; for the others it
   reports success whatever happens.                                        *)
Reported(m) ==
  CASE m = "rebug" -> {"version", "version.swp", "version.nrm"}
    [] m = "xmb" -> {"vsh", "vsh.dexsp", "vsh.cexsp"}
    [] m = "menu" -> {"sysconf", "sysconf.dex", "sysconf.cex"}
    [] OTHER -> {}

-----------------------------------------------------------------------------
(* A value other than the one shown is chosen.  The entry for the XMB is there
   in REBUG mode only.                                                      *)
Choose(m, v) ==
  /\ phase = "run"
  /\ choice = None
  /\ choices < MaxChoices
  /\ mode[m] # v
  /\ m = "xmb" => mode.rebug = 1
  /\ choice' = <<m, v>>
  /\ mode' = [mode EXCEPT ![m] = v]
  /\ job' = Calls(m, v)
  /\ chain' = TRUE
  /\ clean' = TRUE
  /\ status' = IF job' = <<>> THEN "refused" ELSE "done"
  /\ choices' = choices + 1
  /\ UNCHANGED <<files, phase, replaces, faults>>

(* The next call: it is skipped, or made and it succeeds, or made and it
   fails, because of the names or because it fails.                         *)
Call(ok) ==
  /\ phase = "run"
  /\ job # <<>>
  /\ LET c == Head(job)
         skipped == c.chained /\ ~chain
         possible == Possible(files, c, replaces)
         done == ~skipped /\ ok /\ possible
     IN /\ ok \/ (~skipped /\ possible /\ faults < MaxFaults)
        /\ files' = IF done THEN Effect(files, c) ELSE files
        /\ chain' = (done /\ (c.chained => chain))
        /\ clean' = (clean /\ done)
        /\ faults' = IF ok THEN faults ELSE faults + 1
        /\ status' = IF ~done /\ c.to \in Reported(choice[1]) THEN "failed" ELSE status
  /\ job' = Tail(job)
  /\ UNCHANGED <<mode, choice, phase, replaces, choices>>

(* check_settings() at the end. *)
Finish ==
  /\ phase = "run"
  /\ choice # None
  /\ job = <<>>
  /\ mode' = Read(files, mode)
  /\ choice' = None
  /\ UNCHANGED <<files, job, chain, clean, status, phase, replaces, choices, faults>>

(* The power goes during an operation. *)
Cut ==
  /\ phase = "run"
  /\ job # <<>>
  /\ faults < MaxFaults
  /\ faults' = faults + 1
  /\ job' = <<>>
  /\ choice' = None
  /\ status' = "cut"
  /\ mode' = Read(files, [ m \in ModeNames |-> 0 ])
  /\ phase' = IF Exists(files, "vsh") THEN "run" ELSE "down"
  /\ UNCHANGED <<files, chain, clean, replaces, choices>>

(* The program ends, and with auto_reboot the console restarts. *)
Quit ==
  /\ phase = "run"
  /\ choice = None
  /\ mode' = Read(files, [ m \in ModeNames |-> 0 ])
  /\ phase' = IF Exists(files, "vsh") THEN "run" ELSE "down"
  /\ UNCHANGED <<files, job, chain, clean, choice, status, replaces, choices, faults>>

Next ==
  \/ \E m \in ModeNames, v \in {0, 1} : Choose(m, v)
  \/ \E ok \in BOOLEAN : Call(ok)
  \/ Finish
  \/ Cut
  \/ Quit

Spec == Init /\ [][Next]_vars

-----------------------------------------------------------------------------
(* Types. *)
TypeOK ==
  /\ DOMAIN files = Names
  /\ mode \in [ModeNames -> {0, 1}]
  /\ choice \in ModeNames \X {0, 1} \cup {None}
  /\ status \in {"none", "done", "failed", "refused", "cut"}
  /\ phase \in {"run", "down"} /\ chain \in BOOLEAN /\ clean \in BOOLEAN /\ replaces \in BOOLEAN
  /\ choices \in 0 .. MaxChoices /\ faults \in 0 .. MaxFaults

(* As long as nothing failed, the modes that the names tell are the modes of
   the files under the names that the system loads: after any sequence of
   switches the three files of the system mode are of one kind, the XMB is the
   one shown, and the network category goes with its plug-in.               *)
ModesTell ==
  faults = 0 /\ choice = None =>
    /\ files["vsh"] = (IF mode.rebug = 0 THEN "normal"
                       ELSE IF mode.xmb = 0 THEN "retail" ELSE "debug")
    /\ \A n \in {"index", "version"} :
         files[n] = IF mode.rebug = 0 THEN "normal" ELSE "rebug"
    /\ \A n \in {"stage2.cex", "stage2.dex"} : Exists(files, n) = (mode.cobra = 1)
    /\ Exists(files, "webftp") = (mode.webman = 1)
    /\ \A n \in {"xai", "rco"} : Exists(files, n) = (mode.cfw = 1)
    /\ \A n \in {"net", "tool2"} : files[n] = IF mode.cfw = 1 THEN "cfw" ELSE "org"
    /\ ~replaces => files["sysconf"] = IF mode.menu = 0 THEN "cex" ELSE "dex"

(* A failure leaves one of COBRA's two files behind; the next switch that
   meets no failure brings it to the other's side.                          *)
HealsCobra ==
  Finish /\ choice[1] = "cobra" /\ status = "done" /\ clean =>
    Exists(files, "stage2.cex") = Exists(files, "stage2.dex")

CobraHeals == [][HealsCobra]_vars

(* The comments of the branch for the retail XMB, "switch to CEX QA menu" and
   "[DEBUG SETTINGS: MENU 1]: CEX" for the same file: the retail XMB comes with
   the CEX menu.                                                            *)
RetailTakesCexMenu ==
  choice = <<"xmb", 0>> /\ job = <<>> /\ status = "done" /\ clean =>
    files["sysconf"] = "cex"

=============================================================================
