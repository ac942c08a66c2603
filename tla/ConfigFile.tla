----------------------------- MODULE ConfigFile -----------------------------
(* How sing-box.json reaches the disk and the sing-box service:
   singbox.WriteConfig followed by singbox.RestartService
   (internal/core/singbox/config.go), one action per system call.

   Nothing serialises the callers: every handler that changed the store calls
   WriteConfig on its own goroutine after the store's lock is released, and
   every caller uses the same temporary file, sing-box.json.tmp.  Files are
   therefore modelled as names bound to inodes: a descriptor opened under the
   temporary name keeps writing to the same inode after a rename.

   A rendered configuration is opaque here (Panel.tla says how it is rendered);
   what matters is its size, which decides what is left of longer contents
   written by somebody else, and whether "sing-box check" accepts it.  *)
EXTENDS Naturals

CONSTANTS
  Writers,        \* goroutines that may call WriteConfig
  Configs,        \* the configurations that may be rendered
  Accepted(_),    \* the verdict of "sing-box check" on a complete file
  Size(_),        \* bytes of the rendered file
  Inodes,         \* file identities on the data directory's file system
  None,           \* no file, no descriptor, no bytes of one configuration
  Unknown,        \* content nobody vouches for (ConfigRegister.tla)
  CheckerPresent  \* sing-box is on PATH: ValidateConfig runs it

ASSUME NoneAssumption ==
         None \notin Configs \cup Inodes /\ Unknown \notin Configs \cup {None}
ASSUME CheckerAssumption == CheckerPresent \in BOOLEAN
ASSUME SizeAssumption ==
         \A c \in Configs : Size(c) \in Nat \ {0} /\ Accepted(c) \in BOOLEAN

VARIABLES
  inode,       \* [Inodes -> Contents]: the bytes of every file
  tmp,         \* inode named sing-box.json.tmp, or None
  conf,        \* inode named sing-box.json, or None
  pc,          \* [Writers -> Places]: where each goroutine is
  viewer,      \* the goroutines that serve GET /api/v1/sing-box/config; the
               \* others changed the store and restart the service afterwards
  cfg,         \* [Writers -> Configs \cup {None}]: the bytes it has rendered
  fd,          \* [Writers -> Inodes \cup {None}]: its open descriptor
  svc,         \* contents sing-box read when it was last started
  alone,       \* history: no other goroutine was in the file protocol with it
  overlapped,  \* history: two goroutines were in it together since the last
               \* installation by one that was alone
  littered,    \* history: a write failed or the process died mid-way
  owed         \* history: a restart of the service was lost or never due

files == <<inode, tmp, conf>>
vars == <<inode, tmp, conf, pc, viewer, cfg, fd, svc, alone, overlapped, littered, owed>>

Places == {"idle", "open", "written", "checked", "refused", "ok", "err"}

(* The bytes of a file: the last configuration written from its first byte,
   and the file's length.  It is whole when it holds exactly that. *)
Contents == [head : Configs \cup {None}, len : Nat]
Blank == [head |-> None, len |-> 0]
Whole(c) == [head |-> c, len |-> Size(c)]
Installable(c) == CheckerPresent => Accepted(c)
Loadable(b) == \E c \in Configs : b = Whole(c) /\ Installable(c)

(* What a reader of sing-box.json finds. *)
Installed == IF conf = None THEN None ELSE inode[conf]

(* Between opening the temporary file and the end of WriteConfig. *)
InFile(w) == pc[w] \in {"open", "written", "checked", "refused"}
Idle == \A w \in Writers : pc[w] = "idle"

TypeOK ==
  /\ inode \in [Inodes -> Contents]
  /\ tmp \in Inodes \cup {None}
  /\ conf \in Inodes \cup {None}
  /\ pc \in [Writers -> Places]
  /\ viewer \subseteq Writers
  /\ cfg \in [Writers -> Configs \cup {None}]
  /\ fd \in [Writers -> Inodes \cup {None}]
  /\ svc \in Contents \cup {None}
  /\ alone \in [Writers -> BOOLEAN]
  /\ overlapped \in BOOLEAN
  /\ littered \in BOOLEAN
  /\ owed \in BOOLEAN

(* A fresh data directory: nothing rendered yet, sing-box not started. *)
Init ==
  /\ inode = [i \in Inodes |-> Blank]
  /\ tmp = None
  /\ conf = None
  /\ pc = [w \in Writers |-> "idle"]
  /\ viewer = {}
  /\ cfg = [w \in Writers |-> None]
  /\ fd = [w \in Writers |-> None]
  /\ svc = None
  /\ alone = [w \in Writers |-> FALSE]
  /\ overlapped = FALSE
  /\ littered = FALSE
  /\ owed = FALSE

-----------------------------------------------------------------------------
Goto(w, place) == pc' = [pc EXCEPT ![w] = place]

(* The request is answered: nothing of its call of WriteConfig is left. *)
Return(w) ==
  /\ Goto(w, "idle")
  /\ cfg' = [cfg EXCEPT ![w] = None]
  /\ alone' = [alone EXCEPT ![w] = FALSE]
  /\ viewer' = viewer \ {w}

(* The inodes a new file may get: those no name and no descriptor refers to. *)
Unused == {i \in Inodes : i # tmp /\ i # conf /\ \A w \in Writers : fd[w] # i}

(* os.WriteFile opens with O_CREATE|O_TRUNC: an existing temporary file,
   somebody else's or one left by a dead process, is emptied. *)
OpenTmp(w, c) ==
  /\ pc[w] = "idle"
  /\ IF tmp # None
       THEN /\ inode' = [inode EXCEPT ![tmp] = Blank]
            /\ UNCHANGED tmp
       ELSE \E i \in Unused : /\ tmp' = i
                              /\ inode' = [inode EXCEPT ![i] = Blank]
  /\ fd' = [fd EXCEPT ![w] = tmp']
  /\ cfg' = [cfg EXCEPT ![w] = c]
  /\ viewer' \in {viewer, viewer \cup {w}}
  /\ Goto(w, "open")
  /\ alone' = [v \in Writers |->
                 IF v = w THEN \A u \in Writers \ {w} : ~InFile(u)
                          ELSE alone[v] /\ ~InFile(v)]
  /\ overlapped' = (overlapped \/ \E u \in Writers \ {w} : InFile(u))
  /\ UNCHANGED <<conf, svc, littered, owed>>

(* os.MkdirAll or the open itself fails: WriteConfig returns the error. *)
OpenFails(w, c) ==
  /\ pc[w] = "idle"
  /\ cfg' = [cfg EXCEPT ![w] = c]
  /\ viewer' \in {viewer, viewer \cup {w}}
  /\ alone' = [alone EXCEPT ![w] = FALSE]
  /\ Goto(w, "err")
  /\ UNCHANGED <<files, fd, svc, overlapped, littered, owed>>

(* The write and the close: the bytes land in the inode that was opened, over
   whatever is there; a longer tail of other bytes stays. *)
WriteBytes(w) ==
  /\ pc[w] = "open"
  /\ inode' = [inode EXCEPT ![fd[w]] =
                 [head |-> cfg[w],
                  len |-> IF Size(cfg[w]) > @.len THEN Size(cfg[w]) ELSE @.len]]
  /\ fd' = [fd EXCEPT ![w] = None]
  /\ Goto(w, "written")
  /\ UNCHANGED <<viewer, tmp, conf, cfg, svc, alone, overlapped, littered, owed>>

(* The write fails (disk full) after some bytes or none; WriteConfig returns
   without removing the temporary file. *)
WriteFails(w) ==
  /\ pc[w] = "open"
  /\ inode' \in {inode, [inode EXCEPT ![fd[w]].head = None]}
  /\ fd' = [fd EXCEPT ![w] = None]
  /\ Goto(w, "err")
  /\ littered' = (tmp # None)
  /\ UNCHANGED <<viewer, tmp, conf, cfg, svc, alone, overlapped, owed>>

(* Slip: the result of ValidateConfig is not looked at. *)
CheckIgnored(w) ==
  /\ pc[w] = "written"
  /\ Goto(w, "checked")
  /\ UNCHANGED <<viewer, files, cfg, fd, svc, alone, overlapped, littered, owed>>

(* Slip: ValidateConfig is given the installed file instead of the new one. *)
CheckInstalled(w) ==
  /\ pc[w] = "written"
  /\ Goto(w, IF CheckerPresent /\ conf # None /\ ~Loadable(inode[conf])
               THEN "refused" ELSE "checked")
  /\ UNCHANGED <<viewer, files, cfg, fd, svc, alone, overlapped, littered, owed>>

(* ValidateConfig reads the file that has the temporary name now. *)
Check(w) ==
  /\ pc[w] = "written"
  /\ Goto(w, IF CheckerPresent /\ (tmp = None \/ ~Loadable(inode[tmp]))
               THEN "refused" ELSE "checked")
  /\ UNCHANGED <<viewer, files, cfg, fd, svc, alone, overlapped, littered, owed>>

(* Slip: the refused file is left where it is. *)
KeepRefused(w) ==
  /\ pc[w] = "refused"
  /\ Goto(w, "err")
  /\ UNCHANGED <<viewer, files, cfg, fd, svc, alone, overlapped, littered, owed>>

(* Slip: the installed file is removed in its place. *)
RemoveInstalled(w) ==
  /\ pc[w] = "refused"
  /\ conf' = None
  /\ Goto(w, "err")
  /\ UNCHANGED <<viewer, inode, tmp, cfg, fd, svc, alone, overlapped, littered, owed>>

(* The refused file is removed by name. *)
RemoveTmp(w) ==
  /\ pc[w] = "refused"
  /\ tmp' = None
  /\ littered' = FALSE
  /\ Goto(w, "err")
  /\ UNCHANGED <<viewer, inode, conf, cfg, fd, svc, alone, overlapped, owed>>

(* Slip: the bytes are copied where the file's name belongs. *)
CopyBytes(w) ==
  /\ pc[w] = "checked"
  /\ conf' = IF tmp = None THEN conf ELSE inode[tmp]
  /\ Goto(w, "ok")
  /\ UNCHANGED <<viewer, inode, tmp, cfg, fd, svc, alone, overlapped, littered, owed>>

(* os.Rename puts whatever has the temporary name in place, or fails when
   nothing has it any more. *)
Rename(w) ==
  /\ pc[w] = "checked"
  /\ IF tmp = None
       THEN /\ Goto(w, "err")
            /\ UNCHANGED <<tmp, conf, overlapped, littered>>
       ELSE /\ conf' = tmp
            /\ tmp' = None
            /\ littered' = FALSE
            /\ overlapped' = (overlapped /\ ~alone[w])
            /\ Goto(w, "ok")
  /\ UNCHANGED <<viewer, inode, cfg, fd, svc, alone, owed>>

(* Slip: the service is restarted only when WriteConfig succeeded. *)
RestartIfInstalled(w) ==
  /\ pc[w] \in {"ok", "err"}
  /\ w \notin viewer
  /\ IF pc[w] = "ok" THEN svc' = Installed /\ owed' = FALSE
                     ELSE UNCHANGED <<svc, owed>>
  /\ Return(w)
  /\ UNCHANGED <<files, fd, overlapped, littered>>

(* The handlers drop WriteConfig's result and call RestartService either way;
   systemctl starts sing-box on what sing-box.json holds at that moment. *)
RestartService(w) ==
  /\ pc[w] \in {"ok", "err"}
  /\ w \notin viewer
  /\ svc' = Installed
  /\ owed' = FALSE
  /\ Return(w)
  /\ UNCHANGED <<files, fd, overlapped, littered>>

(* systemctl is missing or fails; its error is dropped as well. *)
RestartFails(w) ==
  /\ pc[w] \in {"ok", "err"}
  /\ w \notin viewer
  /\ owed' = TRUE
  /\ Return(w)
  /\ UNCHANGED <<files, fd, svc, overlapped, littered>>

(* SingBoxConfig answers with the file and restarts nothing. *)
ServeFile(w) ==
  /\ pc[w] \in {"ok", "err"}
  /\ w \in viewer
  /\ owed' = TRUE
  /\ Return(w)
  /\ UNCHANGED <<files, fd, svc, overlapped, littered>>

(* The panel process dies; the files and the sing-box service outlive it. *)
Crash ==
  /\ ~Idle
  /\ pc' = [w \in Writers |-> "idle"]
  /\ cfg' = [w \in Writers |-> None]
  /\ fd' = [w \in Writers |-> None]
  /\ alone' = [w \in Writers |-> FALSE]
  /\ viewer' = {}
  /\ littered' = (tmp # None)
  /\ owed' = TRUE
  /\ UNCHANGED <<files, svc, overlapped>>

Proceed(w) ==
  \/ WriteBytes(w)
  \/ WriteFails(w)
  \/ Check(w)
  \/ RemoveTmp(w)
  \/ Rename(w)
  \/ RestartService(w)
  \/ RestartFails(w)
  \/ ServeFile(w)

Next ==
  \/ \E w \in Writers : \/ \E c \in Configs : OpenTmp(w, c) \/ OpenFails(w, c)
                        \/ Proceed(w)
  \/ Crash

Spec == Init /\ [][Next]_vars

-----------------------------------------------------------------------------
(* A goroutine that had the temporary file to itself and got no error has put
   exactly its own rendering in place, and sing-box would accept it -- whatever
   an earlier crash, failed write or overlap had left on the disk.
   (WriteConfig, config.go:213-222.) *)
AloneInstallsItsOwn ==
  \A w \in Writers :
    pc[w] = "checked" /\ alone[w] =>
      /\ tmp # None
      /\ inode[tmp] = Whole(cfg[w])
      /\ Installable(cfg[w])

(* sing-box.json can only hold something sing-box would not load after two
   goroutines were inside WriteConfig together; crashes, failed writes and
   refused configurations never spoil it. *)
OnlyOverlapSpoils ==
  ~overlapped => conf = None \/ Loadable(inode[conf])

(* Once no request is in flight, the service runs the bytes sing-box.json
   holds, even if the goroutines overwrote each other's file after the rename:
   each of them restarts the service after its last write, successful or not.
   Excused are a failed restart, a crash and the handler that only shows the
   file. *)
ServiceHasWhatIsInstalled == Idle /\ ~owed => svc = Installed

(* No temporary file stays behind once every request has returned, however
   they interleaved, unless a write failed or the process died (config_test.go,
   TestWriteConfigAtomicNoLeftoverTmp, tests one call). *)
NoLeftoverTmp == Idle /\ ~littered => tmp = None

(* The register of ConfigRegister.tla: while two calls have overlapped since the
   last installation by a call on its own, its content is unknown. *)
Register == INSTANCE ConfigRegister WITH
  Acceptable <- Installable,
  content <- IF overlapped THEN Unknown
             ELSE IF conf = None THEN None ELSE inode[conf].head,
  arg <- [w \in Writers |-> IF InFile(w) THEN cfg[w] ELSE None],
  inside <- {w \in Writers : InFile(w)},
  sole <- {w \in Writers : InFile(w) /\ alone[w]}

(* WriteConfig keeps the register's promise step by step: opening the temporary
   file enters the call, the rename commits it, every error path aborts it, and
   nothing else in between can be seen in sing-box.json. *)
ImplementsRegister == Register!RegisterSpec

(* What TestWriteConfigAtomicNoLeftoverTmp calls WriteConfig, taken for the
   server that calls it: atomic.  A handler whose call has succeeded restarts
   sing-box on one complete configuration that passed the check. *)
InstalledIsAtomic ==
  [][\A w \in Writers :
       RestartService(w) /\ pc[w] = "ok" => Loadable(svc')]_vars
=============================================================================
