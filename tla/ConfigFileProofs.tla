-------------------------- MODULE ConfigFileProofs --------------------------
(* Theorems about ConfigFile.tla, for any number of goroutines, configurations
   and inodes and whatever sing-box accepts.

   The inductive invariant is Inv.  Its heart is the pair Exclusive and Lonely,
   which tie the history variables to the program counters, and OwnFile, which
   says how far a goroutine that is alone has come with the temporary file. *)
EXTENDS ConfigFile, TLAPS

(* A call under way knows what it has rendered. *)
Rendered == \A w \in Writers : InFile(w) => cfg[w] \in Configs

(* The temporary file is never the installed one. *)
FilesApart == tmp # None => tmp # conf

(* Who is alone in the protocol really is. *)
Exclusive ==
  \A w \in Writers : alone[w] /\ InFile(w) =>
    \A v \in Writers \ {w} : ~InFile(v)

(* Without an overlap whoever is in the protocol is alone. *)
Lonely == ~overlapped => \A w \in Writers : InFile(w) => alone[w]

(* What a goroutine that is alone knows of the temporary file. *)
OwnFile ==
  \A w \in Writers : alone[w] =>
    /\ pc[w] = "open" => tmp # None /\ fd[w] = tmp /\ inode[tmp].len = 0
    /\ pc[w] \in {"written", "checked"} => tmp # None /\ inode[tmp] = Whole(cfg[w])
    /\ pc[w] = "checked" => Installable(cfg[w])

(* A temporary file nobody was reported to have left belongs to a call. *)
TmpHasOwner == tmp # None /\ ~littered => \E w \in Writers : InFile(w)

Inv ==
  /\ TypeOK
  /\ Rendered
  /\ FilesApart
  /\ Exclusive
  /\ Lonely
  /\ OwnFile
  /\ OnlyOverlapSpoils

-----------------------------------------------------------------------------
(* A complete file loads exactly when its configuration passes the check. *)
LEMMA WholeLoadable ==
  ASSUME NEW c \in Configs
  PROVE  Loadable(Whole(c)) <=> Installable(c)
BY DEF Loadable, Whole

(* Types and renderings depend on each other only. *)
LEMMA TypeStep ==
  ASSUME TypeOK, Rendered, [Next]_vars
  PROVE  TypeOK' /\ Rendered'
<1> USE DEF TypeOK, Rendered, InFile, Places, Goto, Return, files
<1>1. ASSUME NEW w \in Writers, NEW c \in Configs, OpenTmp(w, c)
      PROVE  TypeOK' /\ Rendered'
  <2>1. tmp' \in Inodes /\ inode' \in [Inodes -> Contents]
    BY <1>1 DEF OpenTmp, Unused, Contents, Blank
  <2> QED BY <1>1, <2>1 DEF OpenTmp
<1>2. ASSUME NEW w \in Writers, NEW c \in Configs, OpenFails(w, c)
      PROVE  TypeOK' /\ Rendered'
  BY <1>2 DEF OpenFails
<1>3. ASSUME NEW w \in Writers, WriteBytes(w)
      PROVE  TypeOK' /\ Rendered'
  <2>1. cfg[w] \in Configs
    BY <1>3 DEF WriteBytes
  <2>2. inode' \in [Inodes -> Contents]
    BY <1>3, <2>1, SizeAssumption DEF WriteBytes, Contents
  <2> QED BY <1>3, <2>2 DEF WriteBytes
<1>4. ASSUME NEW w \in Writers, WriteFails(w)
      PROVE  TypeOK' /\ Rendered'
  <2>1. inode' \in [Inodes -> Contents]
    BY <1>4 DEF WriteFails, Contents
  <2> QED BY <1>4, <2>1 DEF WriteFails
<1>5. ASSUME NEW w \in Writers, Check(w)
      PROVE  TypeOK' /\ Rendered'
  BY <1>5 DEF Check
<1>6. ASSUME NEW w \in Writers, RemoveTmp(w)
      PROVE  TypeOK' /\ Rendered'
  BY <1>6 DEF RemoveTmp
<1>7. ASSUME NEW w \in Writers, Rename(w)
      PROVE  TypeOK' /\ Rendered'
  BY <1>7 DEF Rename
<1>8. ASSUME NEW w \in Writers, RestartService(w) \/ RestartFails(w) \/ ServeFile(w)
      PROVE  TypeOK' /\ Rendered'
  <2>1. svc' \in Contents \cup {None}
    BY <1>8 DEF RestartService, RestartFails, ServeFile, Installed, Contents
  <2>2. /\ Return(w)
        /\ owed' \in BOOLEAN
        /\ UNCHANGED <<files, fd, overlapped, littered>>
    BY <1>8 DEF RestartService, RestartFails, ServeFile
  <2> QED BY <2>1, <2>2
<1>9. CASE Crash
  BY <1>9 DEF Crash
<1>10. CASE UNCHANGED vars
  BY <1>10 DEF vars
<1> QED
  BY <1>1, <1>2, <1>3, <1>4, <1>5, <1>6, <1>7, <1>8, <1>9, <1>10 DEF Next, Proceed

-----------------------------------------------------------------------------
(* Every step keeps the invariant. *)
LEMMA InvInit == Init => Inv
<1> SUFFICES ASSUME Init PROVE Inv
  OBVIOUS
<1>1. TypeOK
  BY DEF Init, TypeOK, Places, Contents, Blank
<1>2. Rendered /\ FilesApart /\ Exclusive /\ Lonely /\ OwnFile /\ OnlyOverlapSpoils
  BY DEF Init, Rendered, FilesApart, Exclusive, Lonely, OwnFile, OnlyOverlapSpoils,
         InFile
<1> QED BY <1>1, <1>2 DEF Inv

LEMMA InvStep ==
  ASSUME Inv, [Next]_vars
  PROVE  Inv'
<1>1. TypeOK' /\ Rendered'
  BY TypeStep DEF Inv
<1> SUFFICES FilesApart' /\ Exclusive' /\ Lonely' /\ OwnFile' /\ OnlyOverlapSpoils'
  BY <1>1 DEF Inv
<1> USE NoneAssumption DEF Inv, TypeOK, Goto, Return, files
<1>2. ASSUME NEW w \in Writers, NEW c \in Configs, OpenTmp(w, c)
      PROVE  FilesApart' /\ Exclusive' /\ Lonely' /\ OwnFile' /\ OnlyOverlapSpoils'
  <2>1. /\ tmp' \in Inodes /\ tmp' # conf
        /\ inode' = [inode EXCEPT ![tmp'] = Blank]
        /\ UNCHANGED conf
    BY <1>2 DEF OpenTmp, Unused, FilesApart
  <2>2. FilesApart'
    BY <2>1 DEF FilesApart
  <2>3. Exclusive' /\ Lonely'
    BY <1>2 DEF OpenTmp, Exclusive, Lonely, InFile, Places
  <2>4. OwnFile'
    <3>1. \A v \in Writers \ {w} : alone'[v] => pc'[v] \notin {"open", "written", "checked"}
      BY <1>2 DEF OpenTmp, InFile, Places
    <3>2. pc'[w] = "open" /\ fd'[w] = tmp' /\ inode'[tmp'].len = 0
      BY <1>2, <2>1 DEF OpenTmp, Places, Blank, Contents
    <3> QED BY <2>1, <3>1, <3>2 DEF OwnFile
  <2>5. OnlyOverlapSpoils'
    <3>1. conf # None => inode'[conf] = inode[conf]
      BY <2>1
    <3> QED BY <1>2, <2>1, <3>1 DEF OpenTmp, OnlyOverlapSpoils, Loadable
  <2> QED BY <2>2, <2>3, <2>4, <2>5
<1>3. ASSUME NEW w \in Writers, NEW c \in Configs, OpenFails(w, c)
      PROVE  FilesApart' /\ Exclusive' /\ Lonely' /\ OwnFile' /\ OnlyOverlapSpoils'
  BY <1>3 DEF OpenFails, FilesApart, Exclusive, Lonely, OwnFile, OnlyOverlapSpoils,
              InFile, Places, Loadable
<1>4. ASSUME NEW w \in Writers, WriteBytes(w)
      PROVE  FilesApart' /\ Exclusive' /\ Lonely' /\ OwnFile' /\ OnlyOverlapSpoils'
  <2>1. FilesApart' /\ Exclusive' /\ Lonely'
    BY <1>4 DEF WriteBytes, FilesApart, Exclusive, Lonely, InFile, Places
  <2>2. OwnFile'
    <3>1. \A v \in Writers \ {w} : alone[v] => pc[v] \notin {"open", "written", "checked"}
      BY <1>4 DEF WriteBytes, Exclusive, InFile
    <3>2. cfg[w] \in Configs /\ Size(cfg[w]) \in Nat \ {0}
      BY <1>4, SizeAssumption DEF WriteBytes, Rendered, InFile
    <3>3. alone[w] => tmp # None /\ inode'[tmp] = Whole(cfg[w])
      BY <1>4, <3>2 DEF WriteBytes, OwnFile, Whole, Contents
    <3> QED BY <1>4, <3>1, <3>3 DEF WriteBytes, OwnFile, Places
  <2>3. OnlyOverlapSpoils'
    <3>1. ~overlapped /\ conf # None => inode'[conf] = inode[conf]
      BY <1>4 DEF WriteBytes, Lonely, OwnFile, FilesApart, InFile
    <3> QED BY <1>4, <3>1 DEF WriteBytes, OnlyOverlapSpoils, Loadable
  <2> QED BY <2>1, <2>2, <2>3
<1>5. ASSUME NEW w \in Writers, WriteFails(w)
      PROVE  FilesApart' /\ Exclusive' /\ Lonely' /\ OwnFile' /\ OnlyOverlapSpoils'
  <2>1. FilesApart' /\ Exclusive' /\ Lonely'
    BY <1>5 DEF WriteFails, FilesApart, Exclusive, Lonely, InFile, Places
  <2>2. OwnFile'
    <3>1. \A v \in Writers \ {w} : alone[v] => pc[v] \notin {"open", "written", "checked"}
      BY <1>5 DEF WriteFails, Exclusive, InFile
    <3> QED BY <1>5, <3>1 DEF WriteFails, OwnFile, Places
  <2>3. OnlyOverlapSpoils'
    <3>1. ~overlapped /\ conf # None => inode'[conf] = inode[conf]
      BY <1>5 DEF WriteFails, Lonely, OwnFile, FilesApart, InFile
    <3> QED BY <1>5, <3>1 DEF WriteFails, OnlyOverlapSpoils, Loadable
  <2> QED BY <2>1, <2>2, <2>3
<1>6. ASSUME NEW w \in Writers, Check(w)
      PROVE  FilesApart' /\ Exclusive' /\ Lonely' /\ OwnFile' /\ OnlyOverlapSpoils'
  <2>1. FilesApart' /\ Exclusive' /\ Lonely' /\ OnlyOverlapSpoils'
    BY <1>6 DEF Check, FilesApart, Exclusive, Lonely, OnlyOverlapSpoils, InFile,
                Places, Loadable
  <2>2. alone[w] /\ pc'[w] = "checked" => Installable(cfg[w])
    <3>1. cfg[w] \in Configs
      BY <1>6 DEF Check, Rendered, InFile
    <3>2. CASE CheckerPresent
      BY <1>6, <3>1, <3>2, WholeLoadable DEF Check, OwnFile, Places
    <3>3. CASE ~CheckerPresent
      BY <3>3 DEF Installable
    <3> QED BY <3>2, <3>3
  <2>3. OwnFile'
    BY <1>6, <2>2 DEF Check, OwnFile, Places
  <2> QED BY <2>1, <2>3
<1>7. ASSUME NEW w \in Writers, RemoveTmp(w)
      PROVE  FilesApart' /\ Exclusive' /\ Lonely' /\ OwnFile' /\ OnlyOverlapSpoils'
  <2>1. FilesApart' /\ Exclusive' /\ Lonely' /\ OnlyOverlapSpoils'
    BY <1>7 DEF RemoveTmp, FilesApart, Exclusive, Lonely, OnlyOverlapSpoils, InFile,
                Places, Loadable
  <2>2. \A v \in Writers \ {w} : alone[v] => pc[v] \notin {"open", "written", "checked"}
    BY <1>7 DEF RemoveTmp, Exclusive, InFile
  <2>3. OwnFile'
    BY <1>7, <2>2 DEF RemoveTmp, OwnFile, Places
  <2> QED BY <2>1, <2>3
<1>8. ASSUME NEW w \in Writers, Rename(w)
      PROVE  FilesApart' /\ Exclusive' /\ Lonely' /\ OwnFile' /\ OnlyOverlapSpoils'
  <2>1. \A v \in Writers \ {w} : alone[v] => pc[v] \notin {"open", "written", "checked"}
    BY <1>8 DEF Rename, Exclusive, InFile
  <2>2. FilesApart' /\ Exclusive' /\ OwnFile'
    BY <1>8, <2>1 DEF Rename, FilesApart, Exclusive, OwnFile, InFile, Places
  <2>3. Lonely'
    BY <1>8 DEF Rename, Lonely, Exclusive, InFile, Places
  <2>4. alone[w] => tmp # None /\ Loadable(inode[tmp])
    BY <1>8, WholeLoadable DEF Rename, OwnFile, Rendered, InFile
  <2>5. ~overlapped => alone[w]
    BY <1>8 DEF Rename, Lonely, InFile
  <2>6. OnlyOverlapSpoils'
    BY <1>8, <2>4, <2>5 DEF Rename, OnlyOverlapSpoils, Loadable
  <2> QED BY <2>2, <2>3, <2>6
<1>9. ASSUME NEW w \in Writers, RestartService(w) \/ RestartFails(w) \/ ServeFile(w)
      PROVE  FilesApart' /\ Exclusive' /\ Lonely' /\ OwnFile' /\ OnlyOverlapSpoils'
  <2>1. Return(w) /\ ~InFile(w) /\ UNCHANGED <<files, fd, overlapped>>
    BY <1>9 DEF RestartService, RestartFails, ServeFile, InFile
  <2> QED
    BY <2>1 DEF FilesApart, Exclusive, Lonely, OwnFile, OnlyOverlapSpoils, InFile,
                Places, Loadable
<1>10. CASE Crash
  BY <1>10 DEF Crash, FilesApart, Exclusive, Lonely, OwnFile, OnlyOverlapSpoils,
               InFile, Loadable
<1>11. CASE UNCHANGED vars
  BY <1>11 DEF vars, FilesApart, Exclusive, Lonely, OwnFile, OnlyOverlapSpoils,
               InFile, Loadable
<1> QED
  BY <1>2, <1>3, <1>4, <1>5, <1>6, <1>7, <1>8, <1>9, <1>10, <1>11 DEF Next, Proceed

LEMMA InvAlways == Spec => []Inv
BY InvInit, InvStep, PTL DEF Spec

(* Every variable keeps its type. *)
THEOREM TypeCorrect == Spec => []TypeOK
BY InvAlways, PTL DEF Inv

(* Only two goroutines that were inside WriteConfig together can leave a
   sing-box.json that sing-box would not load. *)
THEOREM SpoiltByOverlapOnly == Spec => []OnlyOverlapSpoils
BY InvAlways, PTL DEF Inv

(* A goroutine that met no other installs exactly its own rendering, and only
   one that passed the check. *)
THEOREM InstallsItsOwn == Spec => []AloneInstallsItsOwn
<1>1. Inv => AloneInstallsItsOwn
  BY DEF Inv, OwnFile, AloneInstallsItsOwn
<1> QED BY InvAlways, <1>1, PTL

-----------------------------------------------------------------------------
(* Once every request has returned, the service has what sing-box.json holds:
   whoever changes sing-box.json is still there to restart the service. *)
THEOREM RestartFollowsInstall == Spec => []ServiceHasWhatIsInstalled
<1>1. Init => ServiceHasWhatIsInstalled
  BY DEF Init, ServiceHasWhatIsInstalled, Installed
<1>2. TypeOK /\ ServiceHasWhatIsInstalled /\ [Next]_vars => ServiceHasWhatIsInstalled'
  <2> SUFFICES ASSUME TypeOK, ServiceHasWhatIsInstalled, [Next]_vars
               PROVE  ServiceHasWhatIsInstalled'
    OBVIOUS
  <2> USE DEF TypeOK, Goto, Return, files
  <2>1. ASSUME NEW w \in Writers, NEW c \in Configs, OpenTmp(w, c) \/ OpenFails(w, c)
        PROVE  ~Idle'
    BY <2>1 DEF OpenTmp, OpenFails, Idle
  <2>2. ASSUME NEW w \in Writers,
               WriteBytes(w) \/ WriteFails(w) \/ Check(w) \/ RemoveTmp(w) \/ Rename(w)
        PROVE  ~Idle'
    BY <2>2 DEF WriteBytes, WriteFails, Check, RemoveTmp, Rename, Idle
  <2>3. ASSUME NEW w \in Writers, RestartService(w)
        PROVE  svc' = Installed'
    BY <2>3 DEF RestartService, Installed
  <2>4. ASSUME NEW w \in Writers, RestartFails(w) \/ ServeFile(w)
        PROVE  owed'
    BY <2>4 DEF RestartFails, ServeFile
  <2>5. CASE Crash
    BY <2>5 DEF Crash, ServiceHasWhatIsInstalled
  <2>6. CASE UNCHANGED vars
    BY <2>6 DEF vars, ServiceHasWhatIsInstalled, Installed, Idle
  <2> QED
    BY <2>1, <2>2, <2>3, <2>4, <2>5, <2>6
    DEF Next, Proceed, ServiceHasWhatIsInstalled
<1> QED BY <1>1, <1>2, TypeCorrect, PTL DEF Spec

(* A temporary file that no failed write and no crash has left is somebody's:
   nobody leaves the protocol while it is there. *)
THEOREM TmpIsRemoved == Spec => []NoLeftoverTmp
<1>1. Init => TmpHasOwner
  BY DEF Init, TmpHasOwner
<1>2. TypeOK /\ TmpHasOwner /\ [Next]_vars => TmpHasOwner'
  <2> SUFFICES ASSUME TypeOK, TmpHasOwner, [Next]_vars
               PROVE  TmpHasOwner'
    OBVIOUS
  <2> USE DEF TypeOK, Goto, Return, files, Places
  <2>1. ASSUME NEW w \in Writers, NEW c \in Configs, OpenTmp(w, c)
        PROVE  TmpHasOwner'
    BY <2>1 DEF OpenTmp, TmpHasOwner, InFile
  <2>2. ASSUME NEW w \in Writers, NEW c \in Configs, OpenFails(w, c)
        PROVE  TmpHasOwner'
    BY <2>2 DEF OpenFails, TmpHasOwner, InFile
  <2>3. ASSUME NEW w \in Writers, WriteBytes(w) \/ Check(w)
        PROVE  TmpHasOwner'
    BY <2>3 DEF WriteBytes, Check, TmpHasOwner, InFile
  <2>4. ASSUME NEW w \in Writers, WriteFails(w) \/ RemoveTmp(w)
        PROVE  TmpHasOwner'
    BY <2>4 DEF WriteFails, RemoveTmp, TmpHasOwner
  <2>5. ASSUME NEW w \in Writers, Rename(w)
        PROVE  tmp' = None
    BY <2>5 DEF Rename
  <2>6. ASSUME NEW w \in Writers, RestartService(w) \/ RestartFails(w) \/ ServeFile(w)
        PROVE  TmpHasOwner'
    <3>1. Return(w) /\ ~InFile(w) /\ UNCHANGED <<files, littered>>
      BY <2>6 DEF RestartService, RestartFails, ServeFile, InFile
    <3> QED BY <3>1 DEF TmpHasOwner, InFile
  <2>7. CASE Crash
    BY <2>7 DEF Crash, TmpHasOwner
  <2>8. CASE UNCHANGED vars
    BY <2>8 DEF vars, TmpHasOwner, InFile
  <2> QED
    BY <2>1, <2>2, <2>3, <2>4, <2>5, <2>6, <2>7, <2>8 DEF Next, Proceed, TmpHasOwner
<1>3. TmpHasOwner => NoLeftoverTmp
  BY DEF TmpHasOwner, NoLeftoverTmp, Idle, InFile
<1> QED BY <1>1, <1>2, <1>3, TypeCorrect, PTL DEF Spec

-----------------------------------------------------------------------------
(* Refinement. *)

(* The fresh data directory is the register before any call. *)
LEMMA RegisterStarts == Init => Register!RegisterInit
BY DEF Init, Register!RegisterInit, InFile

(* Every system call is a step of the register or invisible to it. *)
LEMMA RegisterSteps ==
  ASSUME Inv, Inv', [Next]_vars
  PROVE  [Register!RegisterNext]_(Register!register)
<1> DEFINE Content == IF overlapped THEN Unknown
                      ELSE IF conf = None THEN None ELSE inode[conf].head
           Arg == [w \in Writers |-> IF InFile(w) THEN cfg[w] ELSE None]
           Inside == {w \in Writers : InFile(w)}
           Sole == {w \in Writers : InFile(w) /\ alone[w]}
<1> USE NoneAssumption DEF Inv, TypeOK, Goto, Return, files, Places
<1>1. ASSUME NEW w \in Writers, NEW c \in Configs, OpenTmp(w, c)
      PROVE  Register!Enter(w, c)
  <2>1. ~InFile(w) /\ pc'[w] = "open" /\ cfg'[w] = c
    BY <1>1 DEF OpenTmp, InFile
  <2>2. \A v \in Writers \ {w} : pc'[v] = pc[v] /\ cfg'[v] = cfg[v]
    BY <1>1 DEF OpenTmp
  <2>3. InFile(w)' /\ \A v \in Writers \ {w} : InFile(v)' <=> InFile(v)
    BY <2>1, <2>2 DEF InFile
  <2>4. Arg' = [Arg EXCEPT ![w] = c] /\ Inside' = Inside \cup {w}
    BY <2>1, <2>2, <2>3, ZenonT(30)
  <2>5. CASE Inside = {}
    <3>1. alone'[w] /\ \A v \in Writers \ {w} : ~InFile(v)
      BY <1>1, <2>5 DEF OpenTmp
    <3>2. Sole' = {w}
      BY <2>3, <3>1
    <3>3. conf # None => inode'[conf] = inode[conf]
      BY <1>1 DEF OpenTmp, Unused, FilesApart
    <3>4. Content' = Content
      BY <1>1, <2>5, <3>3 DEF OpenTmp
    <3> QED BY <2>1, <2>4, <2>5, <3>2, <3>4 DEF Register!Enter
  <2>6. CASE Inside # {}
    <3>1. \E v \in Writers \ {w} : InFile(v)
      BY <2>1, <2>6
    <3>2. Sole' = {} /\ Content' = Unknown
      BY <1>1, <3>1, <2>1, <2>2 DEF OpenTmp, InFile
    <3> QED BY <2>1, <2>4, <2>6, <3>2 DEF Register!Enter
  <2> QED BY <2>5, <2>6
<1>2. ASSUME NEW w \in Writers, NEW c \in Configs, OpenFails(w, c)
      PROVE  UNCHANGED Register!register
  <2>1. Content' = Content /\ Arg' = Arg /\ Inside' = Inside /\ Sole' = Sole
    BY <1>2 DEF OpenFails, InFile
  <2> QED BY <2>1 DEF Register!register
<1>3. ASSUME NEW w \in Writers, WriteBytes(w) \/ Check(w)
      PROVE  UNCHANGED Register!register
  <2>1. Arg' = Arg /\ Inside' = Inside /\ Sole' = Sole
    BY <1>3 DEF WriteBytes, Check, InFile
  <2>2. ~overlapped /\ conf # None => inode'[conf] = inode[conf]
    BY <1>3 DEF WriteBytes, Check, Lonely, OwnFile, FilesApart, InFile
  <2>3. Content' = Content
    BY <1>3, <2>2 DEF WriteBytes, Check
  <2> QED BY <2>1, <2>3 DEF Register!register
<1>4. ASSUME NEW w \in Writers, InFile(w), ~InFile(w)',
             \A v \in Writers \ {w} : pc'[v] = pc[v],
             cfg' = cfg, alone' = alone
      PROVE  /\ Arg' = [Arg EXCEPT ![w] = None]
             /\ Inside' = Inside \ {w}
             /\ Sole' = Sole \ {w}
  BY <1>4 DEF InFile
<1>5. ASSUME NEW w \in Writers, WriteFails(w)
      PROVE  Register!Abort(w)
  <2>1. /\ InFile(w) /\ ~InFile(w)' /\ cfg' = cfg /\ alone' = alone
        /\ \A v \in Writers \ {w} : pc'[v] = pc[v]
    BY <1>5 DEF WriteFails, InFile
  <2>2. ~overlapped /\ conf # None => inode'[conf] = inode[conf]
    BY <1>5 DEF WriteFails, Lonely, OwnFile, FilesApart, InFile
  <2>3. Content' = Content
    BY <1>5, <2>2 DEF WriteFails
  <2> QED BY <1>4, <2>1, <2>3 DEF Register!Abort, Register!Leave
<1>6. ASSUME NEW w \in Writers, RemoveTmp(w)
      PROVE  Register!Abort(w)
  <2>1. /\ InFile(w) /\ ~InFile(w)' /\ cfg' = cfg /\ alone' = alone
        /\ \A v \in Writers \ {w} : pc'[v] = pc[v]
    BY <1>6 DEF RemoveTmp, InFile
  <2>2. Content' = Content
    BY <1>6 DEF RemoveTmp
  <2> QED BY <1>4, <2>1, <2>2 DEF Register!Abort, Register!Leave
<1>7. ASSUME NEW w \in Writers, Rename(w)
      PROVE  Register!Commit(w) \/ Register!Abort(w)
  <2>1. /\ InFile(w) /\ ~InFile(w)' /\ cfg' = cfg /\ alone' = alone
        /\ \A v \in Writers \ {w} : pc'[v] = pc[v]
    BY <1>7 DEF Rename, InFile
  <2>2. Register!Leave(w)
    BY <1>4, <2>1 DEF Register!Leave
  <2>3. CASE tmp = None
    <3>1. Content' = Content
      BY <1>7, <2>3 DEF Rename
    <3> QED BY <2>2, <3>1 DEF Register!Abort
  <2>4. CASE tmp # None /\ alone[w]
    <3>1. Installable(cfg[w]) /\ inode[tmp].head = cfg[w]
      <4>1. OwnFile /\ pc[w] = "checked"
        BY <1>7 DEF Rename
      <4>2. inode[tmp] = Whole(cfg[w])
        BY <2>4, <4>1 DEF OwnFile
      <4>3. Installable(cfg[w])
        BY <2>4, <4>1 DEF OwnFile
      <4> QED BY <4>2, <4>3 DEF Whole
    <3>2. conf' = tmp /\ ~overlapped' /\ UNCHANGED inode
      BY <1>7, <2>4 DEF Rename
    <3>3. Content' = cfg[w]
      <4>1. conf' # None /\ inode'[conf'] = inode[tmp]
        BY <2>4, <3>2
      <4> QED BY <3>1, <3>2, <4>1
    <3>4. Arg[w] = cfg[w] /\ w \in Sole
      BY <2>1, <2>4
    <3> QED BY <2>2, <3>1, <3>3, <3>4 DEF Register!Commit
  <2>5. CASE tmp # None /\ ~alone[w]
    <3>1. overlapped
      BY <2>1, <2>5 DEF Lonely
    <3>2. Content' = Content /\ w \notin Sole
      BY <1>7, <2>5, <3>1 DEF Rename
    <3> QED BY <2>2, <3>2 DEF Register!Commit
  <2> QED BY <2>3, <2>4, <2>5
<1>8. ASSUME NEW w \in Writers, RestartService(w) \/ RestartFails(w) \/ ServeFile(w)
      PROVE  UNCHANGED Register!register
  <2>1. Return(w) /\ ~InFile(w) /\ UNCHANGED <<files, overlapped>>
    BY <1>8 DEF RestartService, RestartFails, ServeFile, InFile
  <2>2. Content' = Content /\ Arg' = Arg /\ Inside' = Inside /\ Sole' = Sole
    BY <2>1 DEF InFile
  <2> QED BY <2>2 DEF Register!register
<1>9. CASE Crash
  <2>1. Content' = Content /\ Arg' = [w \in Writers |-> None] /\ Inside' = {} /\ Sole' = {}
    BY <1>9 DEF Crash, InFile
  <2> QED BY <2>1 DEF Register!RegisterNext, Register!Die
<1>10. CASE UNCHANGED vars
  <2>1. Content' = Content /\ Arg' = Arg /\ Inside' = Inside /\ Sole' = Sole
    BY <1>10 DEF vars, InFile
  <2> QED BY <2>1 DEF Register!register
<1> HIDE DEF Content, Arg, Inside, Sole
<1> QED
  BY <1>1, <1>2, <1>3, <1>5, <1>6, <1>7, <1>8, <1>9, <1>10
  DEF Next, Proceed, Register!RegisterNext

(* WriteConfig, system call by system call, implements the register. *)
THEOREM ImplementationOfRegister == Spec => ImplementsRegister
<1>1. Inv /\ Inv' /\ [Next]_vars => [Register!RegisterNext]_(Register!register)
  BY RegisterSteps
<1> QED
  BY <1>1, RegisterStarts, InvAlways, PTL DEF Spec, ImplementsRegister, Register!RegisterSpec
=============================================================================
