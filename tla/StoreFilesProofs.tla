--------------------------- MODULE StoreFilesProofs ---------------------------
(***************************************************************************)
(* Theorems about StoreFiles, for any sessions, upgraders and restorers,   *)
(* any builds and any bounds.  FilesInv always holds, Calm until upgrades  *)
(* or restores have crossed: from then on a file may be two files mixed.   *)
(***************************************************************************)
EXTENDS StoreFiles, TLAPS

Row == [pc : Places, file : Files \cup {None}, copy : Copies \cup {None},
        beside : Files \cup {None}, try : 0..Attempts, incoming : Files \cup {None},
        moved : Files \cup {None}]

FileTypes ==
  /\ content \in [Files -> Copies \cup {None}]
  /\ readable \subseteq Files /\ unfolded \subseteq Files
  /\ path \in Files \cup {None} /\ log \in Files \cup {None}
  /\ replaced \subseteq [by : Restorers, file : Files]
  /\ backups \subseteq Copies
  /\ writer \in [Files -> Processes \cup {None}]
  /\ writes \in 0..MaxWrite
  /\ told \subseteq [write : 1..MaxWrite, file : Files, by : Sessions]
  /\ crossed \in BOOLEAN
ProcTypes == proc \in [Processes -> Row]

-----------------------------------------------------------------------------
(* What always holds of the files and of every process. *)

Staging(r) == proc[r].pc \in {"staged", "opened", "held", "linked", "aside"}
Incoming(r) == proc[r].incoming
Beside(u) == proc[u].beside

\* Somebody may still go by the file.
Used(f) ==
  \/ f = path \/ f \in unfolded
  \/ \E p \in Processes : File(p) = f
  \/ \E t \in told : t.file = f

Filed == \A f \in Files : Used(f) => content[f] # None

\* A staged copy is its restorer's alone until it is placed.
StagedBy(r) ==
  Staging(r) =>
    /\ Incoming(r) \in Files /\ content[Incoming(r)] # None /\ ~Used(Incoming(r))
    /\ \A q \in Restorers : q # r /\ Staging(q) => Incoming(q) # Incoming(r)

SessionHas(s) == ~At(s, "idle") => File(s) \in Files
UpgradeHas(u) ==
  /\ proc[u].pc \in {"opened", "read", "locked", "published"} => File(u) \in Files /\ path # None
  /\ proc[u].pc \in {"read", "locked", "published"} => Beside(u) \in Files
RestoreHas(r) == File(r) # None => path # None

\* Who holds a lock is where it holds one.
LocksOf(p) ==
  \A f \in Files : writer[f] = p =>
    \/ p \in Sessions /\ File(p) = f /\ proc[p].pc \in {"writing", "committing"}
    \/ p \in Upgraders /\ Beside(p) = f /\ proc[p].pc \in {"locked", "published"}
    \/ p \in Restorers /\ File(p) = f /\ proc[p].pc \in {"held", "linked", "aside", "placed"}

FilesInv ==
  /\ TypeOK /\ Filed
  /\ \A r \in Restorers : StagedBy(r) /\ RestoreHas(r)
  /\ \A s \in Sessions : SessionHas(s)
  /\ \A u \in Upgraders : UpgradeHas(u)
  /\ \A p \in Processes : LocksOf(p)

-----------------------------------------------------------------------------
(* What holds until upgrades or restores have crossed. *)

Others == Sessions \cup Upgraders
Reading(p) == File(p) # None /\ ~At(p, "opened")

\* Whoever reads the database reads what is at the path.
OnPath == \A p \in Others : Reading(p) => File(p) = path /\ path \in readable

\* The log beside the path is of the file at the path, and is there if needed.
LogInPlace ==
  /\ log \in {None, path}
  /\ path \in readable /\ path \in unfolded => log = path

\* A session writes the file it has locked, at its own version.
WritingBy(s) ==
  At(s, "writing") \/ At(s, "committing") =>
    writer[File(s)] = s /\ content[File(s)].version = Build[s]

\* An upgrade is published for what the locked file holds.
UpgradingBy(u) ==
  /\ proc[u].pc \in {"read", "locked", "published"} => Beside(u) = File(u)
  /\ proc[u].pc \in {"locked", "published"} => writer[File(u)] = u
  /\ At(u, "published") => CopyOf(File(u)) \in backups

\* While a restore swaps the database nobody else reads it or swaps it, and it
\* is the file the restore locked unless there was none to lock.
SwappingBy(r) ==
  /\ ~At(r, "aside") /\ ~At(r, "placed") => proc[r].moved = None
  /\ At(r, "staged") => File(r) = None
  /\ At(r, "placed") => File(r) # path
  /\ At(r, "aside") => log = None
  /\ Swapping(r) =>
       /\ \A p \in Others : ~Reading(p)
       /\ ~OthersSwap(r)
       /\ proc[r].moved \in {None, path}
       /\ File(r) = None => path = None \/ path \notin readable
       /\ File(r) # None => File(r) = path /\ writer[path] = r /\ path \notin unfolded
  /\ (At(r, "linked") \/ At(r, "aside")) /\ path # None => \E n \in replaced : n.file = path

\* ToldKept, crossed or not.
Told ==
  \A t \in told :
    /\ t.write \in content[t.file].rows
    /\ t.file = path \/ \E n \in replaced : n.file = t.file

Calm ==
  /\ OnPath /\ LogInPlace /\ Told
  /\ \A s \in Sessions : WritingBy(s)
  /\ \A u \in Upgraders : UpgradingBy(u)
  /\ \A r \in Restorers : SwappingBy(r)

-----------------------------------------------------------------------------
LEMMA Roles ==
  /\ \A s \in Sessions : s \in Processes /\ s \notin Upgraders /\ s \notin Restorers
  /\ \A u \in Upgraders : u \in Processes /\ u \notin Sessions /\ u \notin Restorers
  /\ \A r \in Restorers : r \in Processes /\ r \notin Sessions /\ r \notin Upgraders
  /\ None \notin Files /\ None \notin Processes /\ None \notin Copies
  BY FilesAssumption DEF Processes

LEMMA Types == TypeOK <=> FileTypes /\ ProcTypes
  BY DEF TypeOK, FileTypes, ProcTypes, Row

LEMMA IdleRow == Idle \in Row
  BY FilesAssumption DEF Idle, Row, Places

LEMMA IdleIs ==
  /\ Idle.pc = "idle" /\ Idle.file = None /\ Idle.beside = None /\ Idle.moved = None
  /\ \A n : /\ [Idle EXCEPT !.pc = "inspected", !.try = n].pc = "inspected"
            /\ [Idle EXCEPT !.pc = "inspected", !.try = n].file = None
            /\ [Idle EXCEPT !.pc = "inspected", !.try = n].beside = None
  BY DEF Idle

LEMMA CopyType == ASSUME FileTypes, NEW f \in Files, content[f] # None PROVE CopyOf(f) \in Copies
  <1>1. content[f] \in Copies
    BY DEF FileTypes
  <1> QED
    BY <1>1 DEF Copies, CopyOf

LEMMA NewRow ==
  ASSUME FileTypes, writes < MaxWrite, NEW c \in Copies
  PROVE  LET d == [c EXCEPT !.rows = @ \cup {writes + 1}]
         IN d \in Copies /\ d.version = c.version /\ d.rows = c.rows \cup {writes + 1}
  <1>1. writes + 1 \in 1..MaxWrite
    BY FilesAssumption DEF FileTypes
  <1> QED
    BY <1>1 DEF Copies

LEMMA NewVersion ==
  ASSUME NEW c \in Copies
  PROVE  LET d == [c EXCEPT !.version = "current"] IN d \in Copies /\ d.version = "current" /\ d.rows = c.rows
  BY DEF Copies, Versions

\* Spoiled files hold something still.
LEMMA Spoiled ==
  ASSUME FileTypes, NEW files \in SUBSET Files, Spoil(files)
  PROVE  /\ content' \in [Files -> Copies \cup {None}]
         /\ \A f \in files : content'[f] # None
         /\ \A f \in Files \ files : content'[f] = content[f]
         /\ readable' \subseteq readable
  <1>1. PICK any \in [files -> Copies] : content' = [f \in Files |-> IF f \in files THEN any[f] ELSE content[f]]
    BY DEF Spoil
  <1>2. \A f \in Files : f \in files => any[f] \in Copies
    BY <1>1
  <1>3. \A f \in Files : content'[f] = IF f \in files THEN any[f] ELSE content[f]
    BY <1>1
  <1>4. readable' \subseteq readable
    BY DEF Spoil
  <1> QED
    BY <1>1, <1>2, <1>3, <1>4, Roles DEF FileTypes

-----------------------------------------------------------------------------
(* A step moves one process. *)

Moves(p, row) == proc' = [proc EXCEPT ![p] = row]

LEMMA Moved ==
  ASSUME ProcTypes, NEW p \in Processes, NEW row \in Row, Moves(p, row)
  PROVE  /\ ProcTypes'
         /\ proc'[p] = row
         /\ \A q \in Processes : q # p => proc'[q] = proc[q]
  BY DEF ProcTypes, Moves

LEMMA Entered ==
  ASSUME ProcTypes, NEW p \in Processes, NEW place \in Places, Enter(p, place)
  PROVE  LET row == [proc[p] EXCEPT !.pc = place] IN row \in Row /\ Moves(p, row)
  <1>1. proc[p] \in Row
    BY DEF ProcTypes
  <1> QED
    BY <1>1 DEF Enter, Moves, Row, ProcTypes

LEMMA TypesNext ==
  ASSUME TypeOK, FileTypes', NEW p \in Processes, NEW row \in Row, Moves(p, row)
  PROVE  TypeOK'
  <1>1. ProcTypes'
    BY Types, Moved
  <1> QED
    BY <1>1 DEF TypeOK, FileTypes, ProcTypes, Row

LEMMA InitTypes == Init => TypeOK
  <1> SUFFICES ASSUME Init PROVE TypeOK
    OBVIOUS
  <1> USE FilesAssumption
  <1> DEFINE first == [version |-> "released", rows |-> {}]
  <1>1. first \in Copies
    BY DEF Copies, Versions
  <1>2. 1 \in Files
    BY DEF Files
  <1>3. proc \in [Processes -> Row]
    BY IdleRow DEF Init
  <1>4. path \in {None, 1} /\ readable \in {{}, {path}} \ {{None}}
        /\ content = [f \in Files |-> IF f = path THEN first ELSE None]
        /\ \/ log = None /\ unfolded = {}
           \/ log = path /\ path # None /\ unfolded = {path}
        /\ replaced = {} /\ backups \in {{}, {first}} /\ writer = [f \in Files |-> None]
        /\ writes = 0 /\ told = {} /\ crossed = FALSE
    BY DEF Init
  <1> HIDE DEF first
  <1>5. readable \subseteq Files /\ path \in Files \cup {None}
    BY <1>2, <1>4
  <1>6. log \in Files \cup {None} /\ unfolded \subseteq Files
    BY <1>4, <1>5
  <1>7. content \in [Files -> Copies \cup {None}] /\ writer \in [Files -> Processes \cup {None}]
    BY <1>1, <1>4
  <1>8. backups \subseteq Copies /\ writes \in 0..MaxWrite
    BY <1>1, <1>4
  <1>9. FileTypes
    BY <1>4, <1>5, <1>6, <1>7, <1>8 DEF FileTypes
  <1> QED
    BY <1>3, <1>9, Types DEF ProcTypes

LEMMA InitFiles == Init => FilesInv
  <1> SUFFICES ASSUME Init PROVE FilesInv
    OBVIOUS
  <1>1. TypeOK
    BY InitTypes
  <1>2. \A p \in Processes : proc[p] = Idle
    BY DEF Init
  <1>3. \A p \in Processes : proc[p].pc = "idle" /\ File(p) = None
    BY <1>2, IdleIs DEF File
  <1>4. Filed
    <2>1. \A f \in Files : Used(f) => f = path
      BY <1>3, Roles DEF Used, Init
    <2>2. \A f \in Files : f = path => content[f] = [version |-> "released", rows |-> {}]
      BY DEF Init
    <2>3. [version |-> "released", rows |-> {}] \in Copies
      BY DEF Copies, Versions
    <2> QED
      BY <2>1, <2>2, <2>3, Roles DEF Filed
  <1>5. \A p \in Processes : LocksOf(p)
    BY Roles DEF Init, LocksOf
  <1> QED
    BY <1>1, <1>3, <1>4, <1>5, Roles DEF FilesInv, StagedBy, Staging, SessionHas, UpgradeHas, RestoreHas, At

-----------------------------------------------------------------------------
(* What a step of p leaves to the others. *)

Kept(p) ==
  /\ \A f \in Files : Used(f) => content'[f] # None
  /\ \A r \in Restorers : r # p /\ Staging(r) => content'[Incoming(r)] # None
  /\ path # None => path' # None
  /\ \A f \in Files, q \in Processes : q # p /\ writer'[f] = q => writer[f] = q

\* Nothing comes into use but what p places.
NoNewUse(p) ==
  \A f \in Files : Used(f)' => Used(f) \/ (Staging(p) /\ p \in Restorers /\ f = Incoming(p) /\ ~Staging(p)')

LEMMA OthersKept ==
  ASSUME FilesInv, NEW p \in Processes, NEW row \in Row, Moves(p, row), Kept(p), NoNewUse(p), TypeOK',
         p \in Restorers => StagedBy(p)' /\ RestoreHas(p)',
         p \in Sessions => SessionHas(p)',
         p \in Upgraders => UpgradeHas(p)',
         LocksOf(p)',
         \A f \in Files : p \in Restorers /\ Staging(p) /\ f = Incoming(p) /\ Used(f)' => content'[f] # None
  PROVE  FilesInv'
  <1>1. ProcTypes /\ proc'[p] = row /\ \A q \in Processes : q # p => proc'[q] = proc[q]
    BY Types, Moved DEF FilesInv
  <1>2. Filed'
    BY DEF Filed, Kept, NoNewUse
  <1>3. ASSUME NEW r \in Restorers, r # p PROVE StagedBy(r)'
    <2> SUFFICES ASSUME Staging(r)'
                 PROVE  /\ Incoming(r)' \in Files /\ content'[Incoming(r)'] # None /\ ~Used(Incoming(r))'
                        /\ \A q \in Restorers : q # r /\ Staging(q)' => Incoming(q)' # Incoming(r)'
      BY DEF StagedBy
    <2>1. proc'[r] = proc[r] /\ Staging(r) /\ r \in Processes
      BY <1>1, <1>3, Roles DEF Staging
    <2>2. Incoming(r)' = Incoming(r)
      BY <2>1 DEF Incoming
    <2>3. StagedBy(r)
      BY DEF FilesInv
    <2>4. Incoming(r) \in Files /\ content'[Incoming(r)] # None
      BY <1>3, <2>1, <2>3 DEF StagedBy, Kept
    <2>5. p \in Restorers /\ Staging(p) => Incoming(p) # Incoming(r)
      BY <1>3, <2>1, <2>3 DEF StagedBy
    <2>6. ~Used(Incoming(r))'
      <3>1. PICK f \in Files : f = Incoming(r)
        BY <2>4
      <3>2. ~Used(f) /\ ~(Used(f))'
        BY <2>1, <2>3, <2>5, <3>1 DEF StagedBy, NoNewUse
      <3> QED
        BY <2>2, <3>1, <3>2 DEF Used
    <2>7. ASSUME NEW q \in Restorers, q # r, Staging(q)' PROVE Incoming(q)' # Incoming(r)'
      <3>1. CASE q = p
        BY <1>3, <2>1, <2>7, <3>1 DEF StagedBy
      <3>2. CASE q # p
        <4>1. proc'[q] = proc[q]
          BY <1>1, <3>2, Roles
        <4> QED
          BY <2>1, <2>2, <2>3, <2>7, <4>1 DEF StagedBy, Staging, Incoming
      <3> QED
        BY <3>1, <3>2
    <2> QED
      BY <2>2, <2>4, <2>6, <2>7
  <1>4. ASSUME NEW s \in Sessions, s # p PROVE SessionHas(s)'
    BY <1>1, <1>4, Roles DEF FilesInv, SessionHas, At, File
  <1>5. ASSUME NEW u \in Upgraders, u # p PROVE UpgradeHas(u)'
    BY <1>1, <1>5, Roles DEF FilesInv, UpgradeHas, File, Beside, Kept
  <1>6. ASSUME NEW q \in Processes, q # p PROVE LocksOf(q)'
    <2>1. proc'[q] = proc[q] /\ LocksOf(q)
      BY <1>1, <1>6 DEF FilesInv
    <2>2. \A f \in Files : writer'[f] = q => writer[f] = q
      BY <1>6 DEF Kept
    <2> QED
      BY <2>1, <2>2 DEF LocksOf, File, Beside
  <1>7. ASSUME NEW r \in Restorers, r # p PROVE RestoreHas(r)'
    BY <1>1, <1>7, Roles DEF FilesInv, RestoreHas, File, Kept
  <1> QED
    BY <1>2, <1>3, <1>4, <1>5, <1>6, <1>7 DEF FilesInv

\* A step that leaves the files where they are.
Quiet(p) ==
  /\ \A f \in Files : content[f] # None => content'[f] # None
  /\ path' = path
  /\ \A t \in told' : t \in told \/ t.file = File(p)
  /\ unfolded' \subseteq unfolded \cup {File(p)}
  /\ proc'[p].file \in {None, File(p), path}
  /\ \A f \in Files, q \in Processes : q # p /\ writer'[f] = q => writer[f] = q

LEMMA QuietKept ==
  ASSUME FilesInv, NEW p \in Processes, NEW row \in Row, Moves(p, row), Quiet(p)
  PROVE  Kept(p) /\ \A f \in Files : Used(f)' => Used(f)
  <1>1. \A q \in Processes : q # p => proc'[q] = proc[q]
    BY Types, Moved DEF FilesInv
  <1>2. \A f \in Files : Used(f)' => Used(f)
    BY <1>1, Roles DEF Used, File, Quiet
  <1>3. Kept(p)
    BY DEF Kept, Quiet, FilesInv, Filed, StagedBy
  <1> QED
    BY <1>2, <1>3

\* Whoever is not a restorer moves nothing.
LEMMA OthersQuiet ==
  ASSUME FilesInv, NEW p \in Others, NEW row \in Row, Moves(p, row), Quiet(p), FileTypes', LocksOf(p)',
         p \in Sessions => SessionHas(p)', p \in Upgraders => UpgradeHas(p)'
  PROVE  FilesInv'
  <1>1. p \in Processes /\ p \notin Restorers
    BY Roles DEF Others
  <1>2. Kept(p) /\ NoNewUse(p)
    BY <1>1, QuietKept DEF NoNewUse
  <1>3. TypeOK'
    BY <1>1, TypesNext DEF FilesInv
  <1> QED
    BY <1>1, <1>2, <1>3, OthersKept

-----------------------------------------------------------------------------
(* Types and locks. *)

LEMMA PathType == ASSUME FileTypes, path # None PROVE path \in Files
  BY DEF FileTypes

LEMMA PathHolds ==
  ASSUME FilesInv, path # None
  PROVE  path \in Files /\ content[path] \in Copies /\ CopyOf(path) \in Copies
  <1>1. FileTypes /\ path \in Files
    BY Types, PathType DEF FilesInv
  <1>2. content[path] # None
    BY <1>1 DEF FilesInv, Filed, Used
  <1> QED
    BY <1>1, <1>2, CopyType DEF FileTypes

LEMMA Unlocked ==
  ASSUME FileTypes, NEW p \in Processes, Unlock(p)
  PROVE  /\ writer' \in [Files -> Processes \cup {None}]
         /\ \A f \in Files : writer'[f] # p
         /\ \A f \in Files, q \in Processes : q # p => (writer'[f] = q <=> writer[f] = q)
  BY Roles DEF FileTypes, Unlock

LEMMA Locked ==
  ASSUME FileTypes, NEW p \in Processes, NEW g \in Files, writer' = [writer EXCEPT ![g] = p]
  PROVE  /\ writer' \in [Files -> Processes \cup {None}]
         /\ writer'[g] = p
         /\ \A f \in Files : f # g => writer'[f] = writer[f]
         /\ \A f \in Files, q \in Processes : q # p /\ writer'[f] = q => writer[f] = q
  BY DEF FileTypes

LEMMA CloseType ==
  ASSUME FileTypes, NEW p \in Processes, CloseFile(p)
  PROVE  log' \in Files \cup {None} /\ unfolded' \subseteq Files /\ unfolded' \subseteq unfolded
  BY DEF FileTypes, CloseFile

LEMMA SessionRow ==
  ASSUME TypeOK, NEW s \in Sessions, SessionStep(s)
  PROVE  \E row \in Row : Moves(s, row)
  <1>0. FileTypes /\ ProcTypes /\ s \in Processes
    BY Types, Roles
  <1>1. CASE Open(s)
    <2>1. path \in Files
      BY <1>0, <1>1, PathType DEF Open, CanRead
    <2>2. [Idle EXCEPT !.pc = "open", !.file = path] \in Row
      BY <2>1, IdleRow DEF Row, Places
    <2> QED
      BY <1>1, <2>2 DEF Open, Moves
  <1>2. CASE Begin(s) \/ Check(s) \/ CommitWrite(s)
    <2>1. \E place \in Places : Enter(s, place)
      BY <1>2 DEF Begin, Check, CommitWrite, Places
    <2> QED
      BY <1>0, <2>1, Entered
  <1>3. CASE Close(s)
    BY <1>3, IdleRow DEF Close, Moves
  <1> QED
    BY <1>1, <1>2, <1>3 DEF SessionStep

\* What a committed write leaves in its file.
LEMMA Written ==
  ASSUME FilesInv, NEW s \in Sessions, CommitWrite(s)
  PROVE  /\ File(s) \in Files /\ content[File(s)] \in Copies
         /\ content' \in [Files -> Copies \cup {None}]
         /\ content'[File(s)] # None
         /\ content'[File(s)].version = content[File(s)].version
         /\ content'[File(s)].rows = content[File(s)].rows \cup {writes + 1}
         /\ \A f \in Files : f # File(s) => content'[f] = content[f]
  <1> DEFINE f == File(s)
             c == [content[f] EXCEPT !.rows = @ \cup {writes + 1}]
  <1>1. FileTypes /\ s \in Processes
    BY Types, Roles DEF FilesInv
  <1>2. f \in Files
    BY DEF CommitWrite, FilesInv, SessionHas, At
  <1>3. content[f] \in Copies
    BY <1>1, <1>2 DEF FileTypes, FilesInv, Filed, Used
  <1>4. c \in Copies /\ c.version = content[f].version /\ c.rows = content[f].rows \cup {writes + 1}
    BY <1>1, <1>3, NewRow DEF CommitWrite
  <1>5. content' = [content EXCEPT ![f] = c]
    BY <1>1 DEF CommitWrite
  <1> HIDE DEF c, f
  <1>6. content' \in [Files -> Copies \cup {None}] /\ content'[f] = c
        /\ \A g \in Files : g # f => content'[g] = content[g]
    BY <1>1, <1>2, <1>4, <1>5 DEF FileTypes
  <1> QED
    BY <1>2, <1>3, <1>4, <1>6, Roles DEF f

LEMMA SessionKeeps ==
  ASSUME FilesInv, NEW s \in Sessions, SessionStep(s)
  PROVE  FilesInv'
  <1>0. /\ TypeOK /\ FileTypes /\ ProcTypes /\ proc[s] \in Row /\ SessionHas(s) /\ LocksOf(s)
        /\ s \in Processes /\ s \notin Upgraders /\ s \notin Restorers /\ s \in Others
    BY Types, Roles DEF ProcTypes, FilesInv, Others
  <1>1. PICK row \in Row : Moves(s, row)
    BY SessionRow DEF FilesInv
  <1>2. ASSUME FileTypes', Quiet(s), SessionHas(s)', LocksOf(s)' PROVE FilesInv'
    BY <1>0, <1>1, <1>2, OthersQuiet
  <1>3. CASE Open(s)
    <2>1. UNCHANGED <<disk, writer, writes, told, crossed>> /\ path \in Files
      BY <1>0, <1>3, PathType DEF Open, CanRead
    <2>2. proc'[s].pc = "open" /\ proc'[s].file = path
      BY <1>0, <1>3, IdleRow DEF Open, ProcTypes, Row
    <2>3. FileTypes'
      BY <1>0, <2>1 DEF disk, FileTypes
    <2>4. Quiet(s)
      BY <2>1, <2>2 DEF Quiet, disk
    <2>5. \A f \in Files : writer[f] # s
      BY <1>0, <1>3 DEF LocksOf, Open, At
    <2>6. LocksOf(s)'
      BY <2>1, <2>5 DEF LocksOf
    <2> QED
      BY <1>2, <2>1, <2>2, <2>3, <2>4, <2>6 DEF SessionHas, File
  <1>4. CASE Begin(s)
    <2>1. /\ proc'[s].pc = "writing" /\ proc'[s].file = File(s) /\ At(s, "open")
          /\ UNCHANGED <<disk, writes, told, crossed>> /\ writer' = [writer EXCEPT ![File(s)] = s]
      BY <1>0, <1>4 DEF Begin, ProcTypes, Row, Enter, File
    <2>2. File(s) \in Files
      BY <1>0, <2>1 DEF SessionHas, At
    <2>3. /\ writer' \in [Files -> Processes \cup {None}]
          /\ \A f \in Files : f # File(s) => writer'[f] = writer[f]
          /\ \A f \in Files, q \in Processes : q # s /\ writer'[f] = q => writer[f] = q
      BY <1>0, <2>1, <2>2, Locked
    <2>4. FileTypes'
      BY <1>0, <2>1, <2>3 DEF disk, FileTypes
    <2>5. Quiet(s)
      BY <2>1, <2>3 DEF Quiet, disk
    <2>6. SessionHas(s)'
      BY <2>1, <2>2 DEF SessionHas, File
    <2>7. \A f \in Files : writer'[f] = s => f = File(s)
      BY <1>0, <2>3 DEF LocksOf
    <2>8. LocksOf(s)'
      BY <2>1, <2>7 DEF LocksOf, File
    <2> QED
      BY <1>2, <2>4, <2>5, <2>6, <2>8
  <1>5. CASE Check(s)
    <2>1. /\ proc'[s].pc = "committing" /\ proc'[s].file = File(s) /\ At(s, "writing")
          /\ UNCHANGED <<disk, writer, writes, told, crossed>>
      BY <1>0, <1>5 DEF Check, ProcTypes, Row, Enter, File
    <2>2. FileTypes'
      BY <1>0, <2>1 DEF disk, FileTypes
    <2>3. Quiet(s)
      BY <2>1 DEF Quiet, disk
    <2>4. SessionHas(s)'
      BY <1>0, <2>1 DEF SessionHas, At, File
    <2>5. LocksOf(s)'
      BY <1>0, <2>1 DEF LocksOf, File
    <2> QED
      BY <1>2, <2>2, <2>3, <2>4, <2>5
  <1>6. CASE CommitWrite(s)
    <2> DEFINE f == File(s)
    <2>1. /\ proc'[s].pc = "open" /\ proc'[s].file = f /\ Unlock(s) /\ writes < MaxWrite
          /\ UNCHANGED <<readable, path, replaced, backups, crossed>> /\ unfolded' = unfolded \cup {f}
          /\ log' = (IF path = f THEN f ELSE log) /\ writes' = writes + 1
          /\ told' = told \cup {[write |-> writes + 1, file |-> f, by |-> s]}
      BY <1>0, <1>6 DEF CommitWrite, ProcTypes, Row, Enter, File
    <2>2. /\ f \in Files /\ content' \in [Files -> Copies \cup {None}]
          /\ \A g \in Files : content[g] # None => content'[g] # None
      BY <1>6, Written
    <2>3. writes + 1 \in 1..MaxWrite /\ writes + 1 \in 0..MaxWrite
      BY <1>0, <2>1, FilesAssumption DEF FileTypes
    <2>4. /\ writer' \in [Files -> Processes \cup {None}] /\ \A g \in Files : writer'[g] # s
          /\ \A g \in Files, q \in Processes : q # s /\ writer'[g] = q => writer[g] = q
      BY <1>0, <2>1, Unlocked
    <2>5. FileTypes'
      <3>1. [write |-> writes + 1, file |-> f, by |-> s] \in [write : 1..MaxWrite, file : Files, by : Sessions]
        BY <2>2, <2>3
      <3>2. told' \subseteq [write : 1..MaxWrite, file : Files, by : Sessions]
        <4> HIDE DEF f
        <4> QED
          BY <1>0, <2>1, <3>1 DEF FileTypes
      <3>3. log' \in Files \cup {None} /\ unfolded' \subseteq Files
        BY <1>0, <2>1, <2>2 DEF FileTypes
      <3> QED
        BY <1>0, <2>1, <2>2, <2>3, <2>4, <3>2, <3>3 DEF FileTypes
    <2>6. Quiet(s)
      BY <2>1, <2>2, <2>4 DEF Quiet
    <2>7. SessionHas(s)'
      BY <2>1, <2>2 DEF SessionHas, File
    <2>8. LocksOf(s)'
      BY <2>4 DEF LocksOf
    <2> QED
      BY <1>2, <2>5, <2>6, <2>7, <2>8
  <1>7. CASE Close(s)
    <2>1. /\ proc'[s].pc = "idle" /\ proc'[s].file = None /\ Unlock(s) /\ CloseFile(s)
          /\ UNCHANGED <<content, readable, path, replaced, backups, writes, told, crossed>>
      BY <1>0, <1>7, IdleIs DEF Close, ProcTypes
    <2>2. /\ writer' \in [Files -> Processes \cup {None}] /\ \A g \in Files : writer'[g] # s
          /\ \A g \in Files, q \in Processes : q # s /\ writer'[g] = q => writer[g] = q
      BY <1>0, <2>1, Unlocked
    <2>3. log' \in Files \cup {None} /\ unfolded' \subseteq Files /\ unfolded' \subseteq unfolded
      BY <1>0, <2>1, CloseType
    <2>4. FileTypes'
      BY <1>0, <2>1, <2>2, <2>3 DEF FileTypes
    <2>5. Quiet(s)
      BY <2>1, <2>2, <2>3 DEF Quiet
    <2>6. SessionHas(s)' /\ LocksOf(s)'
      BY <2>1, <2>2 DEF SessionHas, At, LocksOf
    <2> QED
      BY <1>2, <2>4, <2>5, <2>6
  <1> QED
    BY <1>3, <1>4, <1>5, <1>6, <1>7 DEF SessionStep
-----------------------------------------------------------------------------
(* The steps of an upgrade. *)

LEMMA UpgradeEdited ==
  ASSUME ProcTypes, NEW p \in Processes
  PROVE  /\ proc[p] \in Row
         /\ \A c \in Copies : [proc[p] EXCEPT !.pc = "prepared", !.copy = c] \in Row
         /\ \A f \in Files : [proc[p] EXCEPT !.pc = "opened", !.file = f] \in Row
         /\ \A f \in Files : [proc[p] EXCEPT !.pc = "read", !.beside = f] \in Row
  <1>1. proc[p] \in Row
    BY DEF ProcTypes
  <1> QED
    BY <1>1 DEF Row, Places

LEMMA UpgradeRow ==
  ASSUME FilesInv, NEW u \in Upgraders, UpgradeStep(u)
  PROVE  \E row \in Row : Moves(u, row)
  <1>0. ProcTypes /\ u \in Processes /\ proc[u] \in Row /\ FileTypes
    BY Types, Roles DEF FilesInv, ProcTypes
  <1>1. CASE Inspect(u)
    <2>1. [Idle EXCEPT !.pc = "inspected", !.try = 1] \in Row
      <3>1. 1 \in 0..Attempts /\ "inspected" \in Places
        BY FilesAssumption DEF Places
      <3> QED
        BY <3>1, IdleRow DEF Row
    <2> QED
      BY <1>1, <2>1 DEF Inspect, Moves
  <1>2. CASE Prepare(u)
    <2>1. CopyOf(path) \in Copies
      BY <1>2, PathHolds DEF Prepare, CanRead
    <2>2. proc' = [proc EXCEPT ![u] = [proc[u] EXCEPT !.pc = "prepared", !.copy = CopyOf(path)]]
      BY <1>0, <1>2 DEF Prepare, ProcTypes
    <2> QED
      BY <1>0, <2>1, <2>2, UpgradeEdited DEF Moves
  <1>3. CASE OpenLive(u)
    <2>1. path \in Files
      BY <1>3, PathHolds DEF OpenLive
    <2>2. proc' = [proc EXCEPT ![u] = [proc[u] EXCEPT !.pc = "opened", !.file = path]]
      BY <1>0, <1>3 DEF OpenLive, ProcTypes
    <2> QED
      BY <1>0, <2>1, <2>2, UpgradeEdited DEF Moves
  <1>4. CASE ReadLive(u)
    <2>1. path \in Files
      BY <1>0, <1>4, PathType DEF ReadLive, FilesInv, UpgradeHas, At
    <2>2. proc' = [proc EXCEPT ![u] = [proc[u] EXCEPT !.pc = "read", !.beside = path]]
      BY <1>0, <1>4 DEF ReadLive, ProcTypes
    <2> QED
      BY <1>0, <2>1, <2>2, UpgradeEdited DEF Moves
  <1>5. CASE LockLive(u) \/ Publish(u)
    <2>1. \E place \in Places : Enter(u, place)
      BY <1>5 DEF LockLive, Publish, Places
    <2> QED
      BY <1>0, <2>1, Entered
  <1>6. CASE Again(u)
    <2>1. NextTry(u) \in Row
      <3>1. proc[u].try \in 0..Attempts
        BY <1>0 DEF Row
      <3>2. proc[u].try # Attempts => proc[u].try + 1 \in 0..Attempts
        BY <3>1, FilesAssumption
      <3>3. proc[u].try # Attempts => [Idle EXCEPT !.pc = "inspected", !.try = proc[u].try + 1] \in Row
        BY <3>2, IdleRow DEF Row, Places
      <3> QED
        BY <3>3, IdleRow DEF NextTry
    <2> QED
      BY <1>6, <2>1, IdleRow DEF Again, Moves
  <1>7. CASE CommitUpgrade(u) \/ FailUpgrade(u)
    BY <1>7, IdleRow DEF CommitUpgrade, FailUpgrade, Moves
  <1> QED
    BY <1>1, <1>2, <1>3, <1>4, <1>5, <1>6, <1>7 DEF UpgradeStep

\* What a committed upgrade leaves: its file at the current version if it
\* opened that file's own log, or the mixed one spoiled.
LEMMA Upgraded ==
  ASSUME FilesInv, NEW u \in Upgraders, CommitUpgrade(u)
  PROVE  /\ File(u) \in Files /\ content[File(u)] \in Copies
         /\ content' \in [Files -> Copies \cup {None}]
         /\ readable' \subseteq readable
         /\ \A f \in Files : content[f] # None => content'[f] # None
         /\ Beside(u) = File(u) =>
              /\ readable' = readable
              /\ content'[File(u)].version = "current"
              /\ content'[File(u)].rows = content[File(u)].rows
              /\ \A f \in Files : f # File(u) => content'[f] = content[f]
  <1> DEFINE f == File(u)
             c == [content[f] EXCEPT !.version = "current"]
  <1>1. FileTypes /\ u \in Processes
    BY Types, Roles DEF FilesInv
  <1>2. f \in Files /\ Beside(u) \in Files
    BY DEF CommitUpgrade, FilesInv, UpgradeHas, At
  <1>3. content[f] \in Copies
    BY <1>1, <1>2 DEF FileTypes, FilesInv, Filed, Used
  <1>4. c \in Copies /\ c.version = "current" /\ c.rows = content[f].rows
    BY <1>3, NewVersion
  <1>5. CASE Beside(u) = f
    <2>1. content' = [content EXCEPT ![f] = c] /\ readable' = readable
      BY <1>5 DEF CommitUpgrade, Beside
    <2> HIDE DEF c, f
    <2>2. content' \in [Files -> Copies \cup {None}] /\ content'[f] = c
          /\ \A g \in Files : g # f => content'[g] = content[g]
      BY <1>1, <1>2, <1>4, <2>1 DEF FileTypes
    <2> QED
      BY <1>2, <1>3, <1>4, <2>1, <2>2, Roles DEF f
  <1>6. CASE Beside(u) # f
    <2>1. Spoil({Beside(u)})
      BY <1>6 DEF CommitUpgrade, Beside
    <2> QED
      BY <1>1, <1>2, <1>3, <1>6, <2>1, Spoiled
  <1> QED
    BY <1>5, <1>6

LEMMA UpgradeKeeps ==
  ASSUME FilesInv, NEW u \in Upgraders, UpgradeStep(u)
  PROVE  FilesInv'
  <1>0. /\ TypeOK /\ FileTypes /\ ProcTypes /\ proc[u] \in Row /\ UpgradeHas(u) /\ LocksOf(u)
        /\ u \in Processes /\ u \notin Sessions /\ u \notin Restorers /\ u \in Others
    BY Types, Roles DEF ProcTypes, FilesInv, Others
  <1>1. PICK row \in Row : Moves(u, row)
    BY UpgradeRow
  <1>2. ASSUME FileTypes', Quiet(u), UpgradeHas(u)', LocksOf(u)' PROVE FilesInv'
    BY <1>0, <1>1, <1>2, OthersQuiet
  <1>3. CASE Inspect(u) \/ Prepare(u) \/ OpenLive(u)
    <2>1. UNCHANGED <<disk, writer, writes, told, crossed>> /\ proc'[u].pc \in {"inspected", "prepared", "opened"}
          /\ proc'[u].file \in {None, File(u), path}
          /\ (proc'[u].pc = "opened" => proc'[u].file \in Files /\ path # None)
      <3>1. CASE Inspect(u)
        <4>1. proc'[u].pc = "inspected" /\ proc'[u].file = None
          BY <1>0, <3>1, IdleIs DEF Inspect, ProcTypes
        <4> QED
          BY <3>1, <4>1 DEF Inspect
      <3>2. CASE Prepare(u)
        BY <1>0, <3>2 DEF Prepare, ProcTypes, Row, File
      <3>3. CASE OpenLive(u)
        BY <1>0, <3>3, PathType DEF OpenLive, ProcTypes, Row
      <3> QED
        BY <1>3, <3>1, <3>2, <3>3
    <2>2. FileTypes'
      BY <1>0, <2>1 DEF disk, FileTypes
    <2>3. Quiet(u)
      BY <2>1 DEF Quiet, disk
    <2>4. UpgradeHas(u)'
      BY <2>1 DEF UpgradeHas, File, disk
    <2>5. proc[u].pc \notin {"locked", "published"}
      BY <1>3 DEF Inspect, Prepare, OpenLive, At
    <2>6. LocksOf(u)'
      BY <1>0, <2>1, <2>5 DEF LocksOf
    <2> QED
      BY <1>2, <2>2, <2>3, <2>4, <2>6
  <1>4. CASE ReadLive(u)
    <2>1. /\ UNCHANGED <<disk, writer, writes, told>> /\ crossed' = (crossed \/ path # File(u)) /\ At(u, "opened")
          /\ proc'[u].pc = "read" /\ proc'[u].file = File(u) /\ proc'[u].beside = path
      BY <1>0, <1>4 DEF ReadLive, ProcTypes, Row, File
    <2>2. File(u) \in Files /\ path \in Files
      BY <1>0, <2>1, PathType DEF UpgradeHas, At
    <2>3. FileTypes'
      BY <1>0, <2>1 DEF disk, FileTypes
    <2>4. Quiet(u)
      BY <2>1 DEF Quiet, disk
    <2>5. UpgradeHas(u)'
      BY <2>1, <2>2, Roles DEF UpgradeHas, File, Beside, disk
    <2>6. LocksOf(u)'
      BY <1>0, <2>1 DEF LocksOf, At
    <2> QED
      BY <1>2, <2>3, <2>4, <2>5, <2>6
  <1>5. CASE LockLive(u)
    <2> DEFINE f == proc[u].beside
    <2>1. /\ UNCHANGED <<disk, writes, told, crossed>> /\ At(u, "read")
          /\ proc'[u].pc = "locked" /\ proc'[u].file = File(u) /\ proc'[u].beside = f
          /\ writer' = [writer EXCEPT ![f] = IF Exclusive(f) THEN writer[f] ELSE u]
      BY <1>0, <1>5 DEF LockLive, ProcTypes, Row, Enter, File
    <2>2. f \in Files /\ File(u) \in Files /\ path # None
      BY <1>0, <2>1 DEF UpgradeHas, At, Beside
    <2>3. /\ writer' \in [Files -> Processes \cup {None}]
          /\ \A g \in Files : g # f => writer'[g] = writer[g]
          /\ \A g \in Files, q \in Processes : q # u /\ writer'[g] = q => writer[g] = q
      <3> HIDE DEF f
      <3> QED
        BY <1>0, <2>1, <2>2 DEF FileTypes
    <2>4. FileTypes'
      BY <1>0, <2>1, <2>3 DEF disk, FileTypes
    <2>5. Quiet(u)
      BY <2>1, <2>3 DEF Quiet, disk
    <2>6. UpgradeHas(u)'
      BY <2>1, <2>2 DEF UpgradeHas, File, Beside, disk
    <2>7. \A g \in Files : writer[g] # u
      BY <1>0, <2>1 DEF LocksOf, At
    <2>8. \A g \in Files : writer'[g] = u => g = f
      BY <2>3, <2>7
    <2>9. LocksOf(u)'
      BY <2>1, <2>8 DEF LocksOf, Beside
    <2> QED
      BY <1>2, <2>4, <2>5, <2>6, <2>9
  <1>6. CASE Publish(u)
    <2>1. /\ UNCHANGED <<content, readable, path, log, unfolded, replaced, writer, writes, told, crossed>>
          /\ At(u, "locked") /\ backups' = backups \cup {CopyOf(File(u))}
          /\ proc'[u].pc = "published" /\ proc'[u].file = File(u) /\ proc'[u].beside = Beside(u)
      BY <1>0, <1>6 DEF Publish, Stale, ProcTypes, Row, Enter, File, Beside
    <2>2. File(u) \in Files /\ Beside(u) \in Files /\ path # None
      BY <1>0, <2>1 DEF UpgradeHas, At
    <2>3. CopyOf(File(u)) \in Copies
      BY <1>0, <2>2, CopyType DEF FilesInv, Filed, Used
    <2>4. FileTypes'
      BY <1>0, <2>1, <2>3 DEF FileTypes
    <2>5. Quiet(u)
      BY <2>1 DEF Quiet
    <2>6. UpgradeHas(u)'
      BY <2>1, <2>2 DEF UpgradeHas, File, Beside
    <2>7. LocksOf(u)'
      BY <1>0, <2>1 DEF LocksOf, Beside
    <2> QED
      BY <1>2, <2>4, <2>5, <2>6, <2>7
  <1>7. CASE Again(u) \/ FailUpgrade(u)
    <2>1. proc'[u] = Idle \/ proc'[u] = NextTry(u)
      BY <1>0, <1>7 DEF Again, FailUpgrade, ProcTypes
    <2>2. proc'[u].pc \in {"idle", "inspected"} /\ proc'[u].file = None
      BY <2>1, IdleIs DEF NextTry
    <2>3. /\ Unlock(u) /\ CloseFile(u)
          /\ UNCHANGED <<content, readable, path, replaced, backups, writes, told, crossed>>
      BY <1>7 DEF Again, FailUpgrade
    <2>4. /\ writer' \in [Files -> Processes \cup {None}] /\ \A g \in Files : writer'[g] # u
          /\ \A g \in Files, q \in Processes : q # u /\ writer'[g] = q => writer[g] = q
      BY <1>0, <2>3, Unlocked
    <2>5. log' \in Files \cup {None} /\ unfolded' \subseteq Files /\ unfolded' \subseteq unfolded
      BY <1>0, <2>3, CloseType
    <2>6. FileTypes'
      BY <1>0, <2>3, <2>4, <2>5 DEF FileTypes
    <2>7. Quiet(u)
      BY <2>2, <2>3, <2>4, <2>5 DEF Quiet
    <2>8. UpgradeHas(u)' /\ LocksOf(u)'
      BY <2>2, <2>4 DEF UpgradeHas, LocksOf
    <2> QED
      BY <1>2, <2>6, <2>7, <2>8
  <1>8. CASE CommitUpgrade(u)
    <2>1. /\ proc'[u].pc = "idle" /\ proc'[u].file = None /\ Unlock(u)
          /\ UNCHANGED <<path, replaced, backups, writes, told, crossed>>
      BY <1>0, <1>8, IdleIs DEF CommitUpgrade, ProcTypes
    <2>2. /\ File(u) \in Files /\ content' \in [Files -> Copies \cup {None}] /\ readable' \subseteq readable
          /\ \A f \in Files : content[f] # None => content'[f] # None
      BY <1>8, Upgraded
    <2>3. unfolded' \subseteq unfolded \cup {File(u)} /\ log' \in {None, File(u), log}
      BY <1>8 DEF CommitUpgrade
    <2>4. /\ writer' \in [Files -> Processes \cup {None}] /\ \A g \in Files : writer'[g] # u
          /\ \A g \in Files, q \in Processes : q # u /\ writer'[g] = q => writer[g] = q
      BY <1>0, <2>1, Unlocked
    <2>5. FileTypes'
      BY <1>0, <2>1, <2>2, <2>3, <2>4 DEF FileTypes
    <2>6. Quiet(u)
      BY <2>1, <2>2, <2>3, <2>4 DEF Quiet
    <2>7. UpgradeHas(u)' /\ LocksOf(u)'
      BY <2>1, <2>4 DEF UpgradeHas, LocksOf
    <2> QED
      BY <1>2, <2>5, <2>6, <2>7
  <1> QED
    BY <1>3, <1>4, <1>5, <1>6, <1>7, <1>8 DEF UpgradeStep
-----------------------------------------------------------------------------
(* The steps of a restore, and a crash. *)

LEMMA RestoreEdited ==
  ASSUME ProcTypes, NEW p \in Processes
  PROVE  /\ proc[p] \in Row
         /\ \A f \in Files \cup {None} : [proc[p] EXCEPT !.pc = "aside", !.moved = f] \in Row
         /\ \A c \in Copies : [proc[p] EXCEPT !.pc = "held", !.copy = c] \in Row
         /\ \A f \in Files : [proc[p] EXCEPT !.file = f] \in Row
  <1>1. proc[p] \in Row
    BY DEF ProcTypes
  <1> QED
    BY <1>1 DEF Row, Places

\* What a restore that begins to hold a file leaves of the files.
LEMMA HeldFiles ==
  ASSUME FilesInv, NEW r \in Restorers, Hold(r)
  PROVE  /\ File(r) \in Files /\ path \in Files
         /\ content' \in [Files -> Copies \cup {None}] /\ content'[File(r)] \in Copies
         /\ readable' \subseteq readable
         /\ \A f \in Files : content[f] # None => content'[f] # None
  <1> DEFINE f == File(r)
             mixed == path # f /\ log # None
  <1>1. FileTypes /\ ProcTypes /\ r \in Processes /\ proc[r] \in Row
    BY Types, Roles DEF FilesInv, ProcTypes
  <1>2. f \in Files
    BY <1>1 DEF Hold, File, Row
  <1>3. path \in Files
    BY <1>1, <1>2, Roles, PathType DEF FilesInv, RestoreHas
  <1>4. content[f] # None /\ content[path] # None
    BY <1>1, <1>2, <1>3 DEF FilesInv, Filed, Used
  <1>5. CASE mixed
    <2>1. Spoil({f, path})
      BY <1>5 DEF Hold
    <2> QED
      BY <1>1, <1>2, <1>3, <2>1, Spoiled DEF FileTypes
  <1>6. CASE ~mixed
    <2>1. UNCHANGED <<content, readable>>
      BY <1>6 DEF Hold
    <2> QED
      BY <1>1, <1>2, <1>3, <1>4, <2>1 DEF FileTypes
  <1> QED
    BY <1>5, <1>6

LEMMA RestoreRow ==
  ASSUME FilesInv, NEW r \in Restorers, RestoreStep(r)
  PROVE  \E row \in Row : Moves(r, row)
  <1>0. FileTypes /\ ProcTypes /\ r \in Processes /\ proc[r] \in Row
    BY Types, Roles DEF FilesInv, ProcTypes
  <1>1. ASSUME NEW b \in backups, NEW f \in Files, Stage(r, b, f) PROVE \E row \in Row : Moves(r, row)
    <2>1. [Idle EXCEPT !.pc = "staged", !.incoming = f] \in Row
      BY IdleRow DEF Row, Places
    <2> QED
      BY <1>1, <2>1 DEF Stage, Moves
  <1>2. CASE InspectCurrent(r) \/ Link(r) \/ Place(r)
    <2>1. \E place \in Places : Enter(r, place)
      BY <1>2 DEF InspectCurrent, Link, Place, Places, Enter
    <2> QED
      BY <1>0, <2>1, Entered
  <1>3. CASE OpenHold(r)
    <2>1. path \in Files
      BY <1>0, <1>3, PathType DEF OpenHold
    <2>2. proc' = [proc EXCEPT ![r] = [proc[r] EXCEPT !.file = path]]
      BY <1>0, <1>3 DEF OpenHold, ProcTypes
    <2> QED
      BY <1>0, <2>1, <2>2, RestoreEdited DEF Moves
  <1>4. CASE Hold(r)
    <2>1. content'[File(r)] \in Copies
      BY <1>4, HeldFiles
    <2>2. proc' = [proc EXCEPT ![r] = [proc[r] EXCEPT !.pc = "held", !.copy = content'[File(r)]]]
      BY <1>0, <1>4 DEF Hold, ProcTypes
    <2> QED
      BY <1>0, <2>1, <2>2, RestoreEdited DEF Moves
  <1>5. CASE SetLogAside(r)
    <2>1. log \in Files \cup {None}
      BY <1>0 DEF FileTypes
    <2>2. proc' = [proc EXCEPT ![r] = [proc[r] EXCEPT !.pc = "aside", !.moved = log]]
      BY <1>0, <1>5 DEF SetLogAside, ProcTypes
    <2> QED
      BY <1>0, <2>1, <2>2, RestoreEdited DEF Moves
  <1>6. CASE Release(r) \/ Abandon(r) \/ MoveBack(r)
    BY <1>6, IdleRow DEF Release, Abandon, MoveBack, Moves
  <1> QED
    BY <1>1, <1>2, <1>3, <1>4, <1>5, <1>6 DEF RestoreStep

\* A restore that fails removes the copy it staged.
LEMMA Dropped ==
  ASSUME FilesInv, NEW r \in Restorers, Abandon(r) \/ MoveBack(r)
  PROVE  /\ Incoming(r) \in Files /\ ~Used(Incoming(r))
         /\ content' \in [Files -> Copies \cup {None}]
         /\ \A f \in Files : f # Incoming(r) => content'[f] = content[f]
         /\ readable' = readable \ {Incoming(r)}
         /\ \A q \in Restorers : q # r /\ Staging(q) => Incoming(q) # Incoming(r)
  <1>1. FileTypes /\ StagedBy(r)
    BY Types DEF FilesInv
  <1>2. Staging(r)
    BY DEF Abandon, MoveBack, Staging
  <1>3. content' = [content EXCEPT ![Incoming(r)] = None] /\ readable' = readable \ {Incoming(r)}
    BY DEF Abandon, MoveBack, Incoming
  <1> QED
    BY <1>1, <1>2, <1>3 DEF FileTypes, StagedBy

LEMMA RestoreFiles ==
  ASSUME FilesInv, NEW r \in Restorers, RestoreStep(r)
  PROVE  FileTypes'
  <1>0. FileTypes /\ ProcTypes /\ r \in Processes /\ proc[r] \in Row
    BY Types, Roles DEF FilesInv, ProcTypes
  <1>1. ASSUME NEW b \in backups, NEW f \in Files, Stage(r, b, f) PROVE FileTypes'
    BY <1>0, <1>1 DEF Stage, FileTypes
  <1>2. CASE InspectCurrent(r)
    <2>1. crossed' \in BOOLEAN
      BY <1>0, <1>2 DEF InspectCurrent, FileTypes
    <2>2. UNCHANGED <<disk, writer, writes, told>>
      BY <1>2 DEF InspectCurrent
    <2> QED
      BY <1>0, <2>1, <2>2 DEF disk, FileTypes
  <1>3. CASE OpenHold(r)
    BY <1>0, <1>3 DEF OpenHold, disk, FileTypes
  <1>4. CASE Hold(r)
    <2>1. writer' = [writer EXCEPT ![File(r)] = r] /\ log' = None /\ unfolded' \subseteq unfolded
          /\ UNCHANGED <<path, replaced, backups, writes, told>>
      BY <1>4 DEF Hold
    <2>2. crossed' \in BOOLEAN
      BY <1>0, <1>4 DEF Hold, FileTypes
    <2>3. File(r) \in Files /\ content' \in [Files -> Copies \cup {None}] /\ readable' \subseteq readable
      BY <1>4, HeldFiles
    <2>4. writer' \in [Files -> Processes \cup {None}]
      BY <1>0, <2>1, <2>3, Locked
    <2> QED
      BY <1>0, <2>1, <2>2, <2>3, <2>4 DEF FileTypes
  <1>5. CASE Link(r)
    <2>1. proc[r].pc = "held" /\ path \in Files
      BY <1>0, <1>5, PathType DEF Link, At
    <2> QED
      BY <1>0, <1>5, <2>1 DEF Link, FileTypes
  <1>6. CASE SetLogAside(r)
    BY <1>0, <1>6 DEF SetLogAside, FileTypes
  <1>7. CASE Place(r)
    <2>1. path' \in Files \cup {None}
      BY <1>0, <1>7 DEF Place, Row
    <2> QED
      BY <1>0, <1>7, <2>1 DEF Place, FileTypes
  <1>8. CASE Release(r)
    <2>1. writer' \in [Files -> Processes \cup {None}]
      BY <1>0, <1>8, Unlocked DEF Release
    <2> QED
      BY <1>0, <1>8, <2>1 DEF Release, disk, FileTypes
  <1>9. CASE Abandon(r) \/ MoveBack(r)
    <2>1. writer' \in [Files -> Processes \cup {None}]
      BY <1>0, <1>9, Unlocked DEF Abandon, MoveBack
    <2>2. log' \in Files \cup {None}
      BY <1>0, <1>9 DEF Abandon, MoveBack, Row, FileTypes
    <2>3. content' \in [Files -> Copies \cup {None}] /\ readable' \subseteq Files
      BY <1>0, <1>9, Dropped DEF FileTypes
    <2>4. replaced' \subseteq [by : Restorers, file : Files]
      BY <1>0, <1>9 DEF Abandon, MoveBack, FileTypes
    <2>5. UNCHANGED <<path, unfolded, backups, writes, told, crossed>>
      BY <1>9 DEF Abandon, MoveBack
    <2> QED
      BY <1>0, <2>1, <2>2, <2>3, <2>4, <2>5 DEF FileTypes
  <1> QED
    BY <1>1, <1>2, <1>3, <1>4, <1>5, <1>6, <1>7, <1>8, <1>9 DEF RestoreStep

\* A copy staged before stays so while its restorer only looks around.
LEMMA StillStaged ==
  ASSUME FilesInv, NEW r \in Restorers, NEW row \in Row, Moves(r, row), Quiet(r),
         Staging(r)' => Staging(r) /\ proc'[r].incoming = Incoming(r)
  PROVE  StagedBy(r)'
  <1> SUFFICES ASSUME Staging(r)'
               PROVE  /\ proc'[r].incoming \in Files /\ content'[proc'[r].incoming] # None
                      /\ ~Used(Incoming(r))'
                      /\ \A q \in Restorers : q # r /\ Staging(q)' => proc'[q].incoming # proc'[r].incoming
    BY DEF StagedBy, Incoming
  <1>1. r \in Processes /\ ProcTypes /\ \A q \in Processes : q # r => proc'[q] = proc[q]
    BY Types, Roles, Moved DEF FilesInv
  <1>2. StagedBy(r) /\ Staging(r) /\ proc'[r].incoming = Incoming(r)
    BY DEF FilesInv
  <1>3. PICK f \in Files : f = Incoming(r)
    BY <1>2 DEF StagedBy
  <1>4. ~Used(f)' /\ content'[f] # None
    BY <1>1, <1>2, <1>3, QuietKept DEF StagedBy, Quiet
  <1>5. ~Used(Incoming(r))'
    BY <1>2, <1>3, <1>4 DEF Used, Incoming
  <1>6. \A q \in Restorers : q # r /\ Staging(q)' => proc'[q].incoming # proc'[r].incoming
    BY <1>1, <1>2, Roles DEF StagedBy, Staging, Incoming
  <1> QED
    BY <1>2, <1>3, <1>4, <1>5, <1>6

LEMMA RestoreKeeps ==
  ASSUME FilesInv, NEW r \in Restorers, RestoreStep(r)
  PROVE  FilesInv'
  <1>0. /\ TypeOK /\ FileTypes /\ ProcTypes /\ proc[r] \in Row /\ StagedBy(r) /\ RestoreHas(r) /\ LocksOf(r)
        /\ r \in Processes /\ r \notin Sessions /\ r \notin Upgraders
    BY Types, Roles DEF ProcTypes, FilesInv
  <1>1. PICK row \in Row : Moves(r, row)
    BY RestoreRow
  <1>2. TypeOK'
    BY <1>0, <1>1, RestoreFiles, TypesNext
  <1>3. proc'[r] = row /\ \A q \in Processes : q # r => proc'[q] = proc[q]
    BY <1>0, <1>1, Moved
  <1>4. ASSUME Quiet(r), RestoreHas(r)', LocksOf(r)', Staging(r)' => Staging(r) /\ proc'[r].incoming = Incoming(r)
        PROVE  FilesInv'
    <2>1. Kept(r) /\ NoNewUse(r) /\ \A f \in Files : Used(f)' => Used(f)
      BY <1>0, <1>1, <1>4, QuietKept DEF NoNewUse
    <2>2. StagedBy(r)'
      BY <1>1, <1>4, StillStaged
    <2>3. \A f \in Files : r \in Restorers /\ Staging(r) /\ f = Incoming(r) /\ Used(f)' => content'[f] # None
      BY <2>1 DEF Kept
    <2> QED
      BY <1>0, <1>1, <1>2, <1>4, <2>1, <2>2, <2>3, OthersKept
  <1>5. ASSUME NEW b \in backups, NEW f \in Files, Stage(r, b, f) PROVE FilesInv'
    <2>1. /\ content[f] = None /\ content' = [content EXCEPT ![f] = b] /\ b \in Copies
          /\ UNCHANGED <<path, unfolded, backups, writer, told>>
          /\ proc[r].pc = "idle"
      BY <1>0, <1>5 DEF Stage, At, FileTypes
    <2>2. proc'[r].pc = "staged" /\ proc'[r].incoming = f /\ proc'[r].file = None
      BY <1>0, <1>5, IdleRow, IdleIs DEF Stage, ProcTypes, Row
    <2>3. content'[f] # None /\ \A g \in Files : g # f => content'[g] = content[g]
      BY <1>0, <2>1, Roles DEF FileTypes
    <2>4. ~Used(f) /\ \A q \in Restorers : Staging(q) => Incoming(q) # f
      BY <2>1 DEF FilesInv, Filed, StagedBy
    <2>5. \A g \in Files : Used(g)' => Used(g)
      BY <1>3, <2>1, <2>2, Roles DEF Used, File
    <2>6. Kept(r)
      BY <2>1, <2>3, <2>4 DEF Kept, FilesInv, Filed, StagedBy
    <2>7. NoNewUse(r)
      BY <2>5 DEF NoNewUse
    <2>8. StagedBy(r)'
      <3>1. ~Used(f)'
        BY <2>4, <2>5
      <3>2. ~Used(Incoming(r))'
        BY <2>2, <3>1 DEF Used, Incoming
      <3>3. \A q \in Restorers : q # r /\ Staging(q)' => proc'[q].incoming # f
        BY <1>3, <2>4, Roles DEF Staging, Incoming
      <3> QED
        BY <2>2, <2>3, <3>2, <3>3 DEF StagedBy, Incoming
    <2>9. ~Staging(r) /\ RestoreHas(r)' /\ LocksOf(r)'
      BY <1>0, <2>1, <2>2 DEF Staging, RestoreHas, File, LocksOf
    <2> QED
      BY <1>0, <1>1, <1>2, <2>6, <2>7, <2>8, <2>9, OthersKept
  <1>6. CASE InspectCurrent(r)
    <2>1. UNCHANGED <<disk, writer, told>> /\ proc[r].pc = "staged"
          /\ proc'[r].incoming = Incoming(r) /\ proc'[r].file = File(r)
      BY <1>0, <1>6 DEF InspectCurrent, Enter, At, Incoming, File, ProcTypes, Row
    <2>2. Quiet(r)
      BY <2>1 DEF Quiet, disk
    <2>3. RestoreHas(r)' /\ LocksOf(r)'
      BY <1>0, <2>1 DEF RestoreHas, LocksOf, File, disk
    <2> QED
      BY <1>4, <2>1, <2>2, <2>3 DEF Staging
  <1>7. CASE OpenHold(r)
    <2>1. UNCHANGED <<disk, writer, told>> /\ proc[r].pc = "opened" /\ path # None
          /\ proc'[r].incoming = Incoming(r) /\ proc'[r].file = path
      BY <1>0, <1>7 DEF OpenHold, At, Incoming, ProcTypes, Row
    <2>2. Quiet(r)
      BY <2>1 DEF Quiet, disk
    <2>3. RestoreHas(r)' /\ LocksOf(r)'
      BY <1>0, <2>1 DEF RestoreHas, LocksOf, File, disk
    <2> QED
      BY <1>4, <2>1, <2>2, <2>3 DEF Staging
  <1>8. CASE Hold(r)
    <2>1. /\ UNCHANGED <<path, backups, told>> /\ unfolded' \subseteq unfolded
          /\ proc[r].pc = "opened" /\ proc'[r].pc = "held" /\ File(r) # None
          /\ proc'[r].incoming = Incoming(r) /\ proc'[r].file = File(r)
          /\ writer' = [writer EXCEPT ![File(r)] = r]
      BY <1>0, <1>8 DEF Hold, At, Incoming, ProcTypes, Row, File
    <2>2. File(r) \in Files /\ \A f \in Files : content[f] # None => content'[f] # None
      BY <1>8, HeldFiles
    <2>3. /\ \A f \in Files : f # File(r) => writer'[f] = writer[f]
          /\ \A f \in Files, q \in Processes : q # r /\ writer'[f] = q => writer[f] = q
      BY <1>0, <2>1, <2>2, Locked
    <2>4. Quiet(r)
      BY <2>1, <2>2, <2>3 DEF Quiet
    <2>5. \A f \in Files : writer'[f] = r => f = File(r)
      BY <1>0, <2>3 DEF LocksOf
    <2>6. RestoreHas(r)' /\ LocksOf(r)'
      BY <1>0, <2>1, <2>5 DEF RestoreHas, LocksOf, File
    <2> QED
      BY <1>4, <2>1, <2>4, <2>6 DEF Staging
  <1>9. CASE Link(r) \/ SetLogAside(r)
    <2>1. /\ UNCHANGED <<content, path, backups, told, writer, unfolded>> /\ proc[r].pc \in {"held", "linked"}
          /\ proc'[r].pc \in {"linked", "aside"} /\ proc'[r].incoming = Incoming(r) /\ proc'[r].file = File(r)
      BY <1>0, <1>9 DEF Link, SetLogAside, Enter, At, Incoming, ProcTypes, Row, File
    <2>2. Quiet(r)
      BY <2>1 DEF Quiet
    <2>3. RestoreHas(r)' /\ LocksOf(r)'
      BY <1>0, <2>1 DEF RestoreHas, LocksOf, File
    <2> QED
      BY <1>4, <2>1, <2>2, <2>3 DEF Staging
  <1>10. CASE Place(r)
    <2>1. /\ UNCHANGED <<content, backups, told, writer, unfolded>> /\ proc[r].pc = "aside"
          /\ proc'[r].pc = "placed" /\ proc'[r].file = File(r) /\ path' = Incoming(r)
      BY <1>0, <1>10 DEF Place, Enter, At, Incoming, ProcTypes, Row, File
    <2>2. Staging(r) /\ ~Staging(r)'
      BY <2>1 DEF Staging
    <2>3. path' # None
      BY <1>0, <2>1, <2>2, Roles DEF StagedBy
    <2>4. Kept(r)
      BY <2>1, <2>3 DEF Kept, FilesInv, Filed, StagedBy
    <2>5. NoNewUse(r)
      BY <1>3, <2>1, <2>2, Roles DEF NoNewUse, Used, File
    <2>6. StagedBy(r)'
      BY <2>2 DEF StagedBy
    <2>7. \A f \in Files : f = Incoming(r) => content'[f] # None
      BY <1>0, <2>1, <2>2 DEF StagedBy
    <2>8. RestoreHas(r)' /\ LocksOf(r)'
      BY <1>0, <2>1, <2>3 DEF RestoreHas, LocksOf, File
    <2> QED
      BY <1>0, <1>1, <1>2, <2>4, <2>5, <2>6, <2>7, <2>8, OthersKept
  <1>11. CASE Release(r)
    <2>1. UNCHANGED <<disk, told>> /\ proc'[r].pc = "idle" /\ proc'[r].file = None /\ Unlock(r)
      BY <1>0, <1>11, IdleIs DEF Release, ProcTypes
    <2>2. /\ \A f \in Files : writer'[f] # r
          /\ \A f \in Files, q \in Processes : q # r /\ writer'[f] = q => writer[f] = q
      BY <1>0, <2>1, Unlocked
    <2>3. Quiet(r)
      BY <2>1, <2>2 DEF Quiet, disk
    <2>4. RestoreHas(r)' /\ LocksOf(r)' /\ ~Staging(r)'
      BY <2>1, <2>2 DEF RestoreHas, LocksOf, File, Staging
    <2> QED
      BY <1>4, <2>3, <2>4
  <1>12. CASE Abandon(r) \/ MoveBack(r)
    <2> DEFINE f == Incoming(r)
    <2>1. /\ UNCHANGED <<path, unfolded, backups, told>> /\ Unlock(r) /\ Staging(r)
          /\ proc'[r].pc = "idle" /\ proc'[r].file = None
      BY <1>0, <1>12, IdleIs DEF Abandon, MoveBack, ProcTypes, Staging
    <2>2. /\ f \in Files /\ ~Used(f) /\ \A q \in Restorers : q # r /\ Staging(q) => Incoming(q) # f
          /\ \A g \in Files : g # f => content'[g] = content[g]
      BY <1>12, Dropped
    <2>3. /\ \A g \in Files : writer'[g] # r
          /\ \A g \in Files, q \in Processes : q # r /\ writer'[g] = q => writer[g] = q
      BY <1>0, <2>1, Unlocked
    <2> HIDE DEF f
    <2>4. \A g \in Files : Used(g)' => Used(g)
      BY <1>3, <2>1, Roles DEF Used, File
    <2>5. Kept(r)
      <3>1. \A g \in Files : Used(g) => content'[g] # None
        BY <2>2 DEF FilesInv, Filed
      <3>2. \A q \in Restorers : q # r /\ Staging(q) => content'[Incoming(q)] # None
        BY <2>2 DEF FilesInv, StagedBy
      <3> QED
        BY <2>1, <2>3, <3>1, <3>2 DEF Kept
    <2>6. NoNewUse(r)
      BY <2>4 DEF NoNewUse
    <2>7. StagedBy(r)' /\ RestoreHas(r)' /\ LocksOf(r)'
      BY <2>1, <2>3 DEF StagedBy, Staging, RestoreHas, File, LocksOf
    <2>8. \A g \in Files : g = Incoming(r) /\ Used(g)' => content'[g] # None
      BY <2>2, <2>4 DEF f
    <2> QED
      BY <1>0, <1>1, <1>2, <2>5, <2>6, <2>7, <2>8, OthersKept
  <1> QED
    BY <1>5, <1>6, <1>7, <1>8, <1>9, <1>10, <1>11, <1>12 DEF RestoreStep

LEMMA CrashKeeps ==
  ASSUME FilesInv, NEW p \in Processes, Crash(p)
  PROVE  FilesInv'
  <1>0. TypeOK /\ FileTypes /\ ProcTypes
    BY Types DEF FilesInv
  <1>1. Moves(p, Idle) /\ Unlock(p) /\ UNCHANGED <<disk, writes, told, crossed>>
    BY DEF Crash, Moves
  <1>2. /\ writer' \in [Files -> Processes \cup {None}] /\ \A f \in Files : writer'[f] # p
        /\ \A f \in Files, q \in Processes : q # p /\ writer'[f] = q => writer[f] = q
    BY <1>0, <1>1, Unlocked
  <1>3. FileTypes'
    BY <1>0, <1>1, <1>2 DEF disk, FileTypes
  <1>4. TypeOK'
    BY <1>0, <1>1, <1>3, IdleRow, TypesNext
  <1>5. proc'[p].pc = "idle" /\ proc'[p].file = None
    BY <1>0, <1>1, IdleRow, IdleIs, Moved
  <1>6. Quiet(p)
    BY <1>1, <1>2, <1>5 DEF Quiet, disk
  <1>7. Kept(p) /\ NoNewUse(p) /\ \A f \in Files : Used(f)' => Used(f)
    BY <1>1, <1>6, IdleRow, QuietKept DEF NoNewUse
  <1>8. StagedBy(p)' /\ SessionHas(p)' /\ UpgradeHas(p)' /\ RestoreHas(p)' /\ LocksOf(p)'
    BY <1>2, <1>5 DEF StagedBy, Staging, SessionHas, UpgradeHas, RestoreHas, LocksOf, At, File
  <1>9. \A f \in Files : Used(f)' => content'[f] # None
    BY <1>7 DEF Kept
  <1> QED
    BY <1>1, <1>4, <1>7, <1>8, <1>9, IdleRow, OthersKept

LEMMA NextFiles == FilesInv /\ [Next]_vars => FilesInv'
  <1> SUFFICES ASSUME FilesInv, [Next]_vars PROVE FilesInv'
    OBVIOUS
  <1>1. CASE UNCHANGED vars
    BY <1>1 DEF vars, FilesInv, TypeOK, Filed, StagedBy, Staging, Incoming, Used, File, SessionHas, UpgradeHas,
       RestoreHas, LocksOf, Beside, At
  <1> QED
    BY <1>1, SessionKeeps, UpgradeKeeps, RestoreKeeps, CrashKeeps DEF Next

LEMMA FilesAlways == Spec => []FilesInv
  BY InitFiles, NextFiles, PTL DEF Spec

\* The variables keep their types.
THEOREM FilesTyped == Spec => []TypeOK
  <1>1. FilesInv => TypeOK
    BY DEF FilesInv
  <1> QED
    BY <1>1, FilesAlways, PTL

-----------------------------------------------------------------------------
(* Until upgrades or restores have crossed. *)

SwapInv == FilesInv /\ (~crossed => Calm)

LEMMA InitCalm == Init => SwapInv
  <1> SUFFICES ASSUME Init PROVE SwapInv
    OBVIOUS
  <1>1. FilesInv
    BY InitFiles
  <1>2. \A p \in Processes : proc[p] = Idle
    BY DEF Init
  <1>3. \A p \in Processes : proc[p].pc = "idle" /\ File(p) = None /\ proc[p].moved = None
    BY <1>2, IdleIs DEF File
  <1>4. OnPath
    BY <1>3 DEF OnPath, Others, Processes, Reading
  <1>5. LogInPlace
    BY DEF Init, LogInPlace
  <1>6. Told
    BY DEF Init, Told
  <1>7. /\ \A s \in Sessions : WritingBy(s)
        /\ \A u \in Upgraders : UpgradingBy(u)
        /\ \A r \in Restorers : SwappingBy(r)
    BY <1>3, Roles DEF WritingBy, UpgradingBy, SwappingBy, Swapping, At
  <1> QED
    BY <1>1, <1>4, <1>5, <1>6, <1>7 DEF SwapInv, Calm

\* What can be read, or is being read, no restore swaps.
LEMMA ReadableNotSwapped ==
  ASSUME Calm, CanRead(path), NEW r \in Restorers
  PROVE  ~Swapping(r)
  BY DEF Calm, SwappingBy, CanRead, Exclusive

LEMMA ReadNotSwapped ==
  ASSUME Calm, NEW p \in Others, Reading(p), NEW r \in Restorers
  PROVE  ~Swapping(r)
  BY DEF Calm, SwappingBy

LEMMA LockedFree ==
  ASSUME FileTypes, NEW p \in Processes, NEW g \in Files, writer[g] = None, writer' = [writer EXCEPT ![g] = p]
  PROVE  /\ writer'[g] = p
         /\ \A f \in Files, q \in Processes : q # p /\ writer[f] = q => writer'[f] = q
  BY Roles DEF FileTypes

LEMMA ToldStays ==
  ASSUME FilesInv, Calm, told' = told, path' = path, replaced \subseteq replaced',
         \A f \in Files : Used(f) => content'[f] = content[f] \/ content[f].rows \subseteq content'[f].rows
  PROVE  Told'
  <1> SUFFICES ASSUME NEW t \in told
               PROVE  /\ t.write \in content'[t.file].rows
                      /\ t.file = path \/ \E n \in replaced' : n.file = t.file
    BY DEF Told
  <1>1. t.file \in Files /\ Used(t.file)
    BY Types DEF FilesInv, FileTypes, Used
  <1>2. /\ t.write \in content[t.file].rows
        /\ t.file = path \/ \E n \in replaced : n.file = t.file
    BY DEF Calm, Told
  <1> QED
    BY <1>1, <1>2

\* A restore stays as it was while another process moves.
LEMMA SwapperStays ==
  ASSUME NEW q \in Restorers, proc'[q] = proc[q], SwappingBy(q),
         path' = path \/ (~Swapping(q) /\ File(q) # path'),
         Swapping(q) =>
           /\ UNCHANGED <<log, unfolded, replaced>>
           /\ path \in readable' => path \in readable
           /\ File(q) # None /\ writer[path] = q => writer'[path] = q
           /\ \A s \in Restorers : s # q /\ Swapping(s)' => Swapping(s)
           /\ \A p \in Others : Reading(p)' => Reading(p)
  PROVE  SwappingBy(q)'
  <1>1. CASE ~Swapping(q)
    BY <1>1 DEF SwappingBy, Swapping, At, File
  <1>2. CASE Swapping(q)
    <2>1. UNCHANGED <<path, log, unfolded, replaced>> /\ ~At(q, "placed")
      BY <1>2 DEF Swapping, At
    <2>2. ~OthersSwap(q)' /\ \A p \in Others : ~Reading(p)'
      BY <1>2 DEF SwappingBy, OthersSwap
    <2> QED
      BY <1>2, <2>1, <2>2 DEF SwappingBy, Swapping, At, File
  <1> QED
    BY <1>1, <1>2

\* A session or an upgrade moves: it may read what is at the path, and write
\* what it has locked, unless a restore is swapping it.
LEMMA OthersCalm ==
  ASSUME FilesInv, Calm, NEW p \in Others, NEW row \in Row, Moves(p, row),
         UNCHANGED <<path, readable, replaced>>, backups \subseteq backups', Told',
         Reading(p)' => proc'[p].file = path /\ path \in readable,
         log' \in {None, path},
         path \in readable /\ path \in unfolded' => log' = path,
         \A f \in Files, q \in Processes : q # p /\ writer[f] = q => writer'[f] = q,
         \A f \in Files : Used(f) => content'[f] = content[f] \/ writer[f] = p,
         (\E r \in Restorers : Swapping(r)) => ~Reading(p)' /\ log' = log /\ unfolded' = unfolded,
         p \in Sessions => WritingBy(p)',
         p \in Upgraders => UpgradingBy(p)'
  PROVE  Calm'
  <1>1. ProcTypes /\ FileTypes /\ p \in Processes /\ p \notin Restorers
    BY Types, Roles DEF FilesInv, Others
  <1>2. \A q \in Processes : q # p => proc'[q] = proc[q]
    BY <1>1, Moved
  <1>3. OnPath'
    BY <1>2 DEF Calm, OnPath, File, Others, Processes, Reading, At
  <1>4. LogInPlace'
    BY DEF LogInPlace
  <1>5. ASSUME NEW s \in Sessions, s # p PROVE WritingBy(s)'
    <2>1. proc'[s] = proc[s] /\ s \in Processes /\ WritingBy(s) /\ SessionHas(s)
      BY <1>2, <1>5, Roles DEF Calm, FilesInv
    <2>2. File(s) \in Files => Used(File(s))
      BY <2>1 DEF Used
    <2> QED
      BY <1>5, <2>1, <2>2 DEF WritingBy, SessionHas, At, File
  <1>6. ASSUME NEW u \in Upgraders, u # p PROVE UpgradingBy(u)'
    <2>1. proc'[u] = proc[u] /\ u \in Processes /\ UpgradingBy(u) /\ UpgradeHas(u)
      BY <1>2, <1>6, Roles DEF Calm, FilesInv
    <2>2. File(u) \in Files => Used(File(u))
      BY <2>1 DEF Used
    <2> QED
      BY <1>6, <2>1, <2>2 DEF UpgradingBy, UpgradeHas, At, File, Beside, CopyOf
  <1>7. ASSUME NEW r \in Restorers PROVE SwappingBy(r)'
    <2>1. proc'[r] = proc[r] /\ r \in Processes /\ r # p /\ SwappingBy(r)
      BY <1>1, <1>2, <1>7, Roles DEF Calm
    <2>2. \A s \in Restorers : Swapping(s)' => Swapping(s)
      BY <1>1, <1>2, Roles DEF Swapping
    <2>3. Swapping(r) => \A q \in Others : Reading(q)' => Reading(q)
      BY <1>2 DEF Reading, File, At, Others, Processes
    <2>4. Swapping(r) /\ File(r) # None /\ writer[path] = r => writer'[path] = r
      <3>1. Swapping(r) /\ File(r) # None => path \in Files
        BY <1>1, <2>1 DEF SwappingBy, FileTypes
      <3> QED
        BY <2>1, <3>1
    <2> QED
      BY <2>1, <2>2, <2>3, <2>4, SwapperStays
  <1> QED
    BY <1>3, <1>4, <1>5, <1>6, <1>7 DEF Calm

LEMMA Closing ==
  ASSUME Calm, NEW p \in Others, CloseFile(p)
  PROVE  /\ log' \in {None, path}
         /\ path \in readable /\ path \in unfolded' => log' = path
         /\ ~Reading(p) => log' = log /\ unfolded' = unfolded
  <1>1. log \in {None, path} /\ (path \in readable /\ path \in unfolded => log = path)
    BY DEF Calm, LogInPlace
  <1>2. CASE Folds(p)
    <2>1. p \in Connected(File(p)) /\ File(p) # None /\ File(p) = path
      BY <1>2 DEF Folds
    <2>2. Reading(p)
      BY <2>1 DEF Connected, Reading
    <2> QED
      BY <1>2, <2>1, <2>2 DEF CloseFile
  <1>3. CASE ~Folds(p)
    BY <1>1, <1>3 DEF CloseFile
  <1> QED
    BY <1>2, <1>3

LEMMA SessionCalm ==
  ASSUME FilesInv, Calm, NEW s \in Sessions, SessionStep(s)
  PROVE  Calm'
  <1>0. /\ FileTypes /\ ProcTypes /\ proc[s] \in Row /\ SessionHas(s) /\ WritingBy(s)
        /\ s \in Processes /\ s \in Others /\ s \notin Upgraders
    BY Types, Roles DEF ProcTypes, FilesInv, Calm, Others
  <1>1. PICK row \in Row : Moves(s, row)
    BY SessionRow DEF FilesInv
  <1>2. UNCHANGED <<path, readable, replaced, backups>>
    BY DEF SessionStep, Open, Begin, Check, CommitWrite, Close, disk
  <1>3. Reading(s) => File(s) = path /\ path \in readable /\ \A r \in Restorers : ~Swapping(r)
    BY <1>0, ReadNotSwapped DEF Calm, OnPath
  <1>4. log \in {None, path} /\ (path \in readable /\ path \in unfolded => log = path)
    BY DEF Calm, LogInPlace
  <1>5. ASSUME UNCHANGED <<content, told>> PROVE Told'
    BY <1>2, <1>5 DEF Calm, Told
  <1>6. CASE Open(s)
    <2>1. UNCHANGED <<disk, writer, told>> /\ CanRead(path)
      BY <1>6 DEF Open
    <2>2. proc'[s].file = path /\ proc'[s].pc = "open"
      BY <1>0, <1>6, IdleRow DEF Open, ProcTypes, Row
    <2>3. \A r \in Restorers : ~Swapping(r)
      BY <2>1, ReadableNotSwapped
    <2>4. WritingBy(s)'
      BY <2>2 DEF WritingBy, At
    <2> QED
      BY <1>0, <1>1, <1>2, <1>4, <1>5, <2>1, <2>2, <2>3, <2>4, OthersCalm DEF CanRead, disk
  <1>7. CASE Begin(s)
    <2>1. /\ UNCHANGED <<disk, told>> /\ proc'[s].file = File(s) /\ proc'[s].pc = "writing" /\ At(s, "open")
          /\ writer[File(s)] = None /\ writer' = [writer EXCEPT ![File(s)] = s]
          /\ content[File(s)].version = Build[s]
      BY <1>0, <1>7 DEF Begin, Enter, ProcTypes, Row, File
    <2>2. File(s) \in Files /\ Reading(s)
      BY <1>0, <2>1, Roles DEF SessionHas, At, Reading
    <2>3. writer'[File(s)] = s /\ \A f \in Files, q \in Processes : q # s /\ writer[f] = q => writer'[f] = q
      BY <1>0, <2>1, <2>2, LockedFree
    <2>4. WritingBy(s)'
      BY <2>1, <2>3 DEF WritingBy, File, disk
    <2> QED
      BY <1>0, <1>1, <1>2, <1>3, <1>4, <1>5, <2>1, <2>2, <2>3, <2>4, OthersCalm DEF disk
  <1>8. CASE Check(s)
    <2>1. /\ UNCHANGED <<disk, writer, told>> /\ proc'[s].file = File(s) /\ At(s, "writing")
      BY <1>0, <1>8 DEF Check, Enter, ProcTypes, Row, File
    <2>2. Reading(s)
      BY <1>0, <2>1, Roles DEF SessionHas, At, Reading
    <2>3. WritingBy(s)'
      BY <1>0, <2>1 DEF WritingBy, File, disk
    <2> QED
      BY <1>0, <1>1, <1>2, <1>3, <1>4, <1>5, <2>1, <2>2, <2>3, OthersCalm DEF disk
  <1>9. CASE CommitWrite(s)
    <2> DEFINE f == File(s)
    <2>1. /\ proc'[s].file = f /\ proc'[s].pc = "open" /\ At(s, "committing") /\ Unlock(s)
          /\ unfolded' = unfolded \cup {f} /\ log' = IF path = f THEN f ELSE log
          /\ told' = told \cup {[write |-> writes + 1, file |-> f, by |-> s]}
      BY <1>0, <1>9 DEF CommitWrite, Enter, ProcTypes, Row, File
    <2>2. Reading(s)
      BY <1>0, <2>1, Roles DEF SessionHas, At, Reading
    <2>3. /\ f \in Files /\ content'[f].rows = content[f].rows \cup {writes + 1}
          /\ \A g \in Files : g # f => content'[g] = content[g]
      BY <1>9, Written
    <2>4. f = path /\ writer[f] = s
      BY <1>0, <1>3, <2>1, <2>2 DEF WritingBy
    <2>5. Told'
      <3> SUFFICES ASSUME NEW t \in told'
                   PROVE  /\ t.write \in content'[t.file].rows
                          /\ t.file = path \/ \E n \in replaced : n.file = t.file
        BY <1>2 DEF Told
      <3>1. CASE t \in told
        <4>1. t.file \in Files /\ t.write \in content[t.file].rows
              /\ (t.file = path \/ \E n \in replaced : n.file = t.file)
          BY <1>0, <3>1 DEF FileTypes, Calm, Told
        <4> QED
          BY <2>3, <4>1
      <3>2. CASE t = [write |-> writes + 1, file |-> f, by |-> s]
        BY <2>3, <2>4, <3>2
      <3> QED
        BY <2>1, <3>1, <3>2
    <2>6. \A g \in Files, q \in Processes : q # s /\ writer[g] = q => writer'[g] = q
      BY <1>0, <2>1, Unlocked
    <2>7. log' = path
      BY <2>1, <2>4
    <2>8. WritingBy(s)'
      BY <2>1 DEF WritingBy, At
    <2> QED
      BY <1>0, <1>1, <1>2, <1>3, <2>1, <2>2, <2>3, <2>4, <2>5, <2>6, <2>7, <2>8, OthersCalm
  <1>10. CASE Close(s)
    <2>1. /\ proc'[s].pc = "idle" /\ proc'[s].file = None /\ Unlock(s) /\ CloseFile(s) /\ UNCHANGED <<content, told>>
      BY <1>0, <1>10, IdleIs DEF Close, ProcTypes
    <2>2. ~Reading(s)' /\ WritingBy(s)'
      BY <2>1 DEF Reading, WritingBy, At, File
    <2>3. /\ log' \in {None, path} /\ (path \in readable /\ path \in unfolded' => log' = path)
          /\ (~Reading(s) => log' = log /\ unfolded' = unfolded)
      BY <1>0, <2>1, Closing
    <2>4. \A f \in Files, q \in Processes : q # s /\ writer[f] = q => writer'[f] = q
      BY <1>0, <2>1, Unlocked
    <2> QED
      BY <1>0, <1>1, <1>2, <1>3, <1>5, <2>1, <2>2, <2>3, <2>4, OthersCalm
  <1> QED
    BY <1>6, <1>7, <1>8, <1>9, <1>10 DEF SessionStep

LEMMA UpgradeCalm ==
  ASSUME FilesInv, Calm, ~crossed', NEW u \in Upgraders, UpgradeStep(u)
  PROVE  Calm'
  <1>0. /\ FileTypes /\ ProcTypes /\ proc[u] \in Row /\ UpgradeHas(u) /\ UpgradingBy(u)
        /\ u \in Processes /\ u \in Others /\ u \notin Sessions
    BY Types, Roles DEF ProcTypes, FilesInv, Calm, Others
  <1>1. PICK row \in Row : Moves(u, row)
    BY UpgradeRow
  <1>2. UNCHANGED <<path, replaced, told>> /\ backups \subseteq backups'
    BY DEF UpgradeStep, Inspect, Prepare, OpenLive, ReadLive, LockLive, Again, Publish, CommitUpgrade,
       FailUpgrade, disk
  <1>3. Reading(u) => File(u) = path /\ path \in readable /\ \A r \in Restorers : ~Swapping(r)
    BY <1>0, ReadNotSwapped DEF Calm, OnPath
  <1>4. log \in {None, path} /\ (path \in readable /\ path \in unfolded => log = path)
    BY DEF Calm, LogInPlace
  <1>5. ASSUME UNCHANGED <<content, told>> PROVE Told'
    BY <1>2, <1>5 DEF Calm, Told
  <1>6. proc[u].pc \in {"read", "locked", "published"} => Reading(u) /\ Beside(u) = File(u) /\ File(u) \in Files
    BY <1>0, Roles DEF Reading, UpgradeHas, UpgradingBy, At
  <1>7. CASE Inspect(u)
    <2>1. UNCHANGED <<disk, writer, told>>
      BY <1>7 DEF Inspect
    <2>2. proc'[u].pc = "inspected" /\ proc'[u].file = None
      BY <1>0, <1>7, IdleIs DEF Inspect, ProcTypes
    <2>3. ~Reading(u)' /\ UpgradingBy(u)'
      BY <2>2 DEF Reading, UpgradingBy, At, File
    <2> QED
      BY <1>0, <1>1, <1>2, <1>4, <1>5, <2>1, <2>3, OthersCalm DEF disk
  <1>8. CASE Prepare(u)
    <2>1. UNCHANGED <<disk, writer, told>> /\ CanRead(path)
      BY <1>8 DEF Prepare
    <2>2. proc'[u].pc = "prepared" /\ proc'[u].file = File(u) /\ At(u, "inspected")
      BY <1>0, <1>8 DEF Prepare, ProcTypes, Row, File
    <2>3. UpgradingBy(u)' /\ (Reading(u)' => Reading(u))
      BY <2>2 DEF Reading, UpgradingBy, At, File
    <2>4. \A r \in Restorers : ~Swapping(r)
      BY <2>1, ReadableNotSwapped
    <2>5. Reading(u)' => proc'[u].file = path /\ path \in readable
      BY <1>3, <2>2, <2>3
    <2> QED
      BY <1>0, <1>1, <1>2, <1>4, <1>5, <2>1, <2>3, <2>4, <2>5, OthersCalm DEF disk
  <1>9. CASE OpenLive(u)
    <2>1. UNCHANGED <<disk, writer, told>>
      BY <1>9 DEF OpenLive
    <2>2. proc'[u].pc = "opened"
      BY <1>0, <1>9 DEF OpenLive, ProcTypes, Row
    <2>3. ~Reading(u)' /\ UpgradingBy(u)'
      BY <2>2 DEF Reading, UpgradingBy, At
    <2> QED
      BY <1>0, <1>1, <1>2, <1>4, <1>5, <2>1, <2>3, OthersCalm DEF disk
  <1>10. CASE ReadLive(u)
    <2>1. UNCHANGED <<disk, writer, told>> /\ CanRead(path) /\ path = File(u)
      BY <1>10 DEF ReadLive
    <2>2. proc'[u].pc = "read" /\ proc'[u].file = path /\ proc'[u].beside = path
      BY <1>0, <1>10, <2>1 DEF ReadLive, ProcTypes, Row, File
    <2>3. UpgradingBy(u)'
      BY <2>2 DEF UpgradingBy, At, File, Beside
    <2>4. \A r \in Restorers : ~Swapping(r)
      BY <2>1, ReadableNotSwapped
    <2> QED
      BY <1>0, <1>1, <1>2, <1>4, <1>5, <2>1, <2>2, <2>3, <2>4, OthersCalm DEF disk, CanRead
  <1>11. CASE LockLive(u)
    <2> DEFINE f == File(u)
    <2>1. /\ UNCHANGED <<disk, told>> /\ At(u, "read") /\ proc[u].beside = f /\ f \in Files /\ Reading(u)
          /\ proc'[u].pc = "locked" /\ proc'[u].file = f /\ proc'[u].beside = f
          /\ writer[f] \notin Sessions \cup Upgraders
          /\ writer' = [writer EXCEPT ![f] = IF Exclusive(f) THEN writer[f] ELSE u]
      BY <1>0, <1>6, <1>11 DEF LockLive, ProcTypes, Row, Enter, File, At, Beside
    <2>2. f = path /\ path \in readable /\ \A r \in Restorers : ~Swapping(r)
      BY <1>3, <2>1
    <2>3. ~Exclusive(f) /\ writer[f] = None
      <3>1. ASSUME NEW r \in Restorers, writer[f] = r PROVE FALSE
        <4>1. LocksOf(r) /\ SwappingBy(r) /\ r \notin Sessions /\ r \notin Upgraders
          BY Roles DEF FilesInv, Calm
        <4>2. File(r) = f /\ (Swapping(r) \/ At(r, "placed"))
          BY <2>1, <3>1, <4>1 DEF LocksOf, Swapping, At
        <4> QED
          BY <2>2, <4>1, <4>2 DEF SwappingBy
      <3>2. writer[f] \in Processes \cup {None}
        BY <1>0, <2>1 DEF FileTypes
      <3> QED
        BY <2>1, <3>1, <3>2 DEF Exclusive, Processes
    <2>4. writer' = [writer EXCEPT ![f] = u]
      BY <2>1, <2>3
    <2>5. writer'[f] = u /\ \A g \in Files, q \in Processes : q # u /\ writer[g] = q => writer'[g] = q
      BY <1>0, <2>1, <2>3, <2>4, LockedFree
    <2>6. UpgradingBy(u)'
      BY <2>1, <2>5 DEF UpgradingBy, At, File, Beside
    <2> QED
      BY <1>0, <1>1, <1>2, <1>4, <1>5, <2>1, <2>2, <2>5, <2>6, OthersCalm DEF disk
  <1>12. CASE Publish(u)
    <2>1. /\ UNCHANGED <<content, readable, path, log, unfolded, replaced, writer, told>>
          /\ At(u, "locked") /\ backups' = backups \cup {CopyOf(File(u))}
          /\ proc'[u].pc = "published" /\ proc'[u].file = File(u) /\ proc'[u].beside = Beside(u)
      BY <1>0, <1>12 DEF Publish, Stale, ProcTypes, Row, Enter, File, Beside
    <2>2. Reading(u)
      BY <1>6, <2>1 DEF At
    <2>3. UpgradingBy(u)'
      BY <1>0, <2>1 DEF UpgradingBy, At, File, CopyOf, Beside
    <2> QED
      BY <1>0, <1>1, <1>2, <1>3, <1>4, <1>5, <2>1, <2>2, <2>3, OthersCalm
  <1>13. CASE Again(u) \/ FailUpgrade(u)
    <2>1. Unlock(u) /\ CloseFile(u) /\ UNCHANGED <<content, readable>>
      BY <1>13 DEF Again, FailUpgrade
    <2>2. proc'[u] = Idle \/ proc'[u] = NextTry(u)
      BY <1>0, <1>13 DEF Again, FailUpgrade, ProcTypes
    <2>3. proc'[u].pc \in {"idle", "inspected"} /\ proc'[u].file = None
      BY <2>2, IdleIs DEF NextTry
    <2>4. ~Reading(u)' /\ UpgradingBy(u)'
      BY <2>3 DEF Reading, UpgradingBy, At, File
    <2>5. /\ log' \in {None, path} /\ (path \in readable /\ path \in unfolded' => log' = path)
          /\ (~Reading(u) => log' = log /\ unfolded' = unfolded)
      BY <1>0, <2>1, Closing
    <2>6. \A f \in Files, q \in Processes : q # u /\ writer[f] = q => writer'[f] = q
      BY <1>0, <2>1, Unlocked
    <2> QED
      BY <1>0, <1>1, <1>2, <1>3, <1>5, <2>1, <2>4, <2>5, <2>6, OthersCalm
  <1>14. CASE CommitUpgrade(u)
    <2>1. proc'[u].pc = "idle" /\ proc'[u].file = None /\ At(u, "published") /\ Unlock(u)
      BY <1>0, <1>14, IdleIs DEF CommitUpgrade, ProcTypes
    <2>2. Reading(u) /\ Beside(u) = File(u) /\ File(u) \in Files /\ writer[File(u)] = u
      BY <1>0, <1>6, <2>1 DEF UpgradingBy, At
    <2>3. File(u) = path /\ path \in readable /\ \A r \in Restorers : ~Swapping(r)
      BY <1>3, <2>2
    <2>4. /\ readable' = readable /\ content'[File(u)].rows = content[File(u)].rows
          /\ \A f \in Files : f # File(u) => content'[f] = content[f]
      BY <1>14, <2>2, Upgraded
    <2>5. Told'
      BY <1>2, <2>4, ToldStays
    <2>6. ~Reading(u)' /\ UpgradingBy(u)'
      BY <2>1 DEF Reading, UpgradingBy, At, File
    <2>7. /\ log' = (IF Folds(u) THEN None ELSE path)
          /\ unfolded' = IF Folds(u) THEN unfolded \ {path} ELSE unfolded \cup {path}
      BY <1>14, <2>2, <2>3 DEF CommitUpgrade, Beside
    <2>8. log' \in {None, path} /\ (path \in readable /\ path \in unfolded' => log' = path)
      BY <2>7
    <2>9. \A f \in Files, q \in Processes : q # u /\ writer[f] = q => writer'[f] = q
      BY <1>0, <2>1, Unlocked
    <2> QED
      BY <1>0, <1>1, <1>2, <2>2, <2>3, <2>4, <2>5, <2>6, <2>8, <2>9, OthersCalm
  <1> QED
    BY <1>7, <1>8, <1>9, <1>10, <1>11, <1>12, <1>13, <1>14 DEF UpgradeStep

LEMMA CrashOthersCalm ==
  ASSUME FilesInv, Calm, NEW p \in Others, Crash(p)
  PROVE  Calm'
  <1>1. p \in Processes /\ FileTypes /\ ProcTypes
    BY Types, Roles DEF Others, FilesInv
  <1>2. Moves(p, Idle) /\ Unlock(p) /\ UNCHANGED <<disk, told>>
    BY DEF Crash, Moves
  <1>3. proc'[p].pc = "idle" /\ proc'[p].file = None
    BY <1>1, <1>2, IdleRow, IdleIs, Moved
  <1>4. ~Reading(p)' /\ WritingBy(p)' /\ UpgradingBy(p)'
    BY <1>3 DEF Reading, WritingBy, UpgradingBy, At, File
  <1>5. \A f \in Files, q \in Processes : q # p /\ writer[f] = q => writer'[f] = q
    BY <1>1, <1>2, Unlocked
  <1>6. Told' /\ log \in {None, path} /\ (path \in readable /\ path \in unfolded => log = path)
    BY <1>2 DEF Calm, Told, LogInPlace, disk
  <1> QED
    BY <1>2, <1>4, <1>5, <1>6, IdleRow, OthersCalm DEF disk

-----------------------------------------------------------------------------
(* A restore moves: it leaves to the others what they read and have locked. *)

RestoreLeaves(r) ==
  /\ \A p \in Processes : p # r => proc'[p] = proc[p]
  /\ \A f \in Files : Used(f) => content'[f] = content[f]
  /\ \A f \in Files, q \in Processes : q # r /\ writer[f] = q => writer'[f] = q
  /\ backups' = backups

\* It moves nothing others have, and does not begin to swap.
Aside(r) ==
  /\ UNCHANGED <<path, log, unfolded, replaced, told>>
  /\ path \in readable' <=> path \in readable
  /\ ~Swapping(r)'

\* It swaps, alone.
Alone(r) == \A q \in Restorers : q # r => ~Swapping(q)

LEMMA RestoreCalmBy ==
  ASSUME FilesInv, Calm, NEW r \in Restorers, RestoreLeaves(r), OnPath', LogInPlace', Told', SwappingBy(r)',
         \/ Aside(r)
         \/ Alone(r) /\ (path' = path \/ (Staging(r) /\ path' = Incoming(r)))
  PROVE  Calm'
  <1>0. FileTypes
    BY Types DEF FilesInv
  <1>1. ASSUME NEW s \in Sessions PROVE WritingBy(s)'
    <2>1. proc'[s] = proc[s] /\ s \in Processes /\ s # r /\ WritingBy(s) /\ SessionHas(s)
      BY Roles DEF Calm, FilesInv, RestoreLeaves
    <2>2. File(s) \in Files => Used(File(s))
      BY <2>1 DEF Used
    <2> QED
      BY <2>1, <2>2 DEF WritingBy, SessionHas, At, File, RestoreLeaves
  <1>2. ASSUME NEW u \in Upgraders PROVE UpgradingBy(u)'
    <2>1. proc'[u] = proc[u] /\ u \in Processes /\ u # r /\ UpgradingBy(u) /\ UpgradeHas(u)
      BY Roles DEF Calm, FilesInv, RestoreLeaves
    <2>2. File(u) \in Files => Used(File(u))
      BY <2>1 DEF Used
    <2> QED
      BY <2>1, <2>2 DEF UpgradingBy, UpgradeHas, At, File, Beside, CopyOf, RestoreLeaves
  <1>3. ASSUME NEW q \in Restorers, q # r PROVE SwappingBy(q)'
    <2>1. proc'[q] = proc[q] /\ q \in Processes /\ SwappingBy(q)
      BY <1>3, Roles DEF Calm, RestoreLeaves
    <2>2. CASE Aside(r)
      <3>1. UNCHANGED <<path, log, unfolded, replaced>> /\ (path \in readable' => path \in readable)
        BY <2>2 DEF Aside
      <3>2. \A s \in Restorers : Swapping(s)' => Swapping(s)
        BY <2>2, Roles DEF Aside, Swapping, RestoreLeaves
      <3>3. \A p \in Others : Reading(p)' => Reading(p)
        BY Roles DEF Others, Reading, File, At, RestoreLeaves
      <3>4. Swapping(q) /\ File(q) # None /\ writer[path] = q => writer'[path] = q
        <4>1. Swapping(q) /\ File(q) # None => path \in Files
          BY <1>0, <2>1 DEF SwappingBy, FileTypes
        <4> QED
          BY <1>3, <2>1, <4>1 DEF RestoreLeaves
      <3> QED
        BY <2>1, <3>1, <3>2, <3>3, <3>4, SwapperStays
    <2>3. CASE Alone(r) /\ path' = path
      BY <1>3, <2>1, <2>3, SwapperStays DEF Alone
    <2>4. CASE Alone(r) /\ Staging(r) /\ path' = Incoming(r)
      <3>1. ~Used(Incoming(r)) /\ Used(File(q))
        BY <2>1, <2>4 DEF FilesInv, StagedBy, Used
      <3>2. ~Swapping(q) /\ File(q) # path'
        BY <1>3, <2>4, <3>1 DEF Alone
      <3> QED
        BY <2>1, <3>2, SwapperStays
    <2> QED
      BY <2>2, <2>3, <2>4
  <1> QED
    BY <1>1, <1>2, <1>3 DEF Calm

\* So does its death, wherever it comes.
LEMMA CrashRestorerCalm ==
  ASSUME FilesInv, Calm, NEW r \in Restorers, Crash(r)
  PROVE  Calm'
  <1>1. r \in Processes /\ FileTypes /\ ProcTypes
    BY Types, Roles DEF FilesInv
  <1>2. Moves(r, Idle) /\ Unlock(r) /\ UNCHANGED <<disk, told>>
    BY DEF Crash, Moves
  <1>3. proc'[r].pc = "idle" /\ proc'[r].file = None /\ proc'[r].moved = None
        /\ \A q \in Processes : q # r => proc'[q] = proc[q]
    BY <1>1, <1>2, IdleRow, IdleIs, Moved
  <1>4. \A f \in Files, q \in Processes : q # r /\ writer[f] = q => writer'[f] = q
    BY <1>1, <1>2, Unlocked
  <1>5. RestoreLeaves(r)
    BY <1>2, <1>3, <1>4 DEF RestoreLeaves, disk
  <1>6. OnPath' /\ LogInPlace' /\ Told'
    BY <1>2, <1>3, Roles DEF Calm, OnPath, LogInPlace, Told, Others, Reading, File, At, disk
  <1>7. SwappingBy(r)' /\ Aside(r)
    BY <1>2, <1>3 DEF SwappingBy, Swapping, At, Aside, disk
  <1> QED
    BY <1>5, <1>6, <1>7, RestoreCalmBy

LEMMA RestoreCalm ==
  ASSUME FilesInv, Calm, ~crossed', NEW r \in Restorers, RestoreStep(r)
  PROVE  Calm'
  <1>0. /\ FileTypes /\ ProcTypes /\ proc[r] \in Row /\ StagedBy(r) /\ SwappingBy(r)
        /\ r \in Processes /\ r \notin Sessions /\ r \notin Upgraders
    BY Types, Roles DEF ProcTypes, FilesInv, Calm
  <1>1. PICK row \in Row : Moves(r, row)
    BY RestoreRow
  <1>2. \A q \in Processes : q # r => proc'[q] = proc[q]
    BY <1>0, <1>1, Moved
  <1>3. \A p \in Others : (Reading(p)' <=> Reading(p)) /\ File(p)' = File(p)
    BY <1>0, <1>2, Roles DEF Others, Reading, File, At
  <1>4. ASSUME path' = path, path \in readable => path \in readable' PROVE OnPath'
    BY <1>3, <1>4 DEF Calm, OnPath
  <1>5. ASSUME UNCHANGED <<path, log, unfolded>>, path \in readable' => path \in readable PROVE LogInPlace'
    BY <1>5 DEF Calm, LogInPlace
  <1>6. Swapping(r) => Alone(r)
    BY <1>0 DEF SwappingBy, Alone, OthersSwap
  <1>7. ASSUME UNCHANGED <<content, writer, backups>> PROVE RestoreLeaves(r)
    BY <1>2, <1>7 DEF RestoreLeaves
  <1>8. ASSUME NEW b \in backups, NEW f \in Files, Stage(r, b, f) PROVE Calm'
    <2>1. /\ content[f] = None /\ content' = [content EXCEPT ![f] = b] /\ readable' = readable \cup {f}
          /\ UNCHANGED <<path, log, unfolded, replaced, backups, writer, told>>
      BY <1>8 DEF Stage
    <2>2. proc'[r].pc = "staged" /\ proc'[r].file = None /\ proc'[r].moved = None
      BY <1>0, <1>8, IdleRow, IdleIs DEF Stage, ProcTypes, Row
    <2>3. \A g \in Files : Used(g) => g # f
      BY <2>1 DEF FilesInv, Filed
    <2>4. \A g \in Files : Used(g) => content'[g] = content[g]
      BY <1>0, <2>1, <2>3 DEF FileTypes
    <2>5. path # f
      BY <2>3 DEF Used
    <2>6. RestoreLeaves(r)
      BY <1>2, <2>1, <2>4 DEF RestoreLeaves
    <2>7. Aside(r) /\ SwappingBy(r)'
      BY <2>1, <2>2, <2>5 DEF Aside, SwappingBy, Swapping, At, File
    <2>8. Told'
      BY <2>1, <2>4, ToldStays
    <2> QED
      BY <1>4, <1>5, <2>1, <2>5, <2>6, <2>7, <2>8, RestoreCalmBy
  <1>9. CASE InspectCurrent(r)
    <2>1. UNCHANGED <<disk, writer, told>> /\ At(r, "staged") /\ File(r) = None /\ proc[r].moved = None
      BY <1>0, <1>9 DEF InspectCurrent, SwappingBy, At
    <2>2. proc'[r].file = None /\ proc'[r].moved = None
      BY <1>0, <1>9, <2>1 DEF InspectCurrent, Enter, ProcTypes, Row, File
    <2>3. OnPath' /\ LogInPlace' /\ Told' /\ RestoreLeaves(r)
      BY <1>4, <1>5, <1>7, <2>1 DEF disk, Calm, Told
    <2>4. CASE proc'[r].pc = "opened"
      <3>1. SwappingBy(r)' /\ Aside(r)
        BY <2>1, <2>2, <2>4 DEF SwappingBy, Aside, Swapping, At, disk, File
      <3> QED
        BY <2>3, <3>1, RestoreCalmBy
    <2>5. CASE \/ proc'[r].pc = "linked" /\ path = None
               \/ proc'[r].pc = "held" /\ path \notin readable
      <3>1. proc[r].pc = "staged" /\ (path = None \/ path \notin readable) /\ proc'[r].pc # "opened"
        BY <2>1, <2>5, <1>0, Roles DEF At, FileTypes
      <3>2. ~OthersSwap(r)
        BY <1>0, <1>9, <3>1 DEF InspectCurrent, Enter, ProcTypes, Row
      <3>3. Alone(r)
        BY <3>2 DEF OthersSwap, Alone
      <3>4. \A p \in Others : ~Reading(p)'
        BY <1>0, <1>3, <3>1, Roles DEF Calm, OnPath, Reading, FileTypes
      <3>5. ~OthersSwap(r)'
        BY <1>2, <3>2, Roles DEF OthersSwap, Swapping
      <3>6. SwappingBy(r)'
        BY <2>1, <2>2, <2>5, <3>1, <3>4, <3>5 DEF SwappingBy, Swapping, At, File, disk
      <3> QED
        BY <2>1, <2>3, <3>3, <3>6, RestoreCalmBy DEF disk
    <2>6. \/ proc'[r].pc = "opened"
          \/ proc'[r].pc = "linked" /\ path = None
          \/ proc'[r].pc = "held" /\ path \notin readable
      BY <1>0, <1>9 DEF InspectCurrent, Enter, ProcTypes, Row
    <2> QED
      BY <2>4, <2>5, <2>6
  <1>10. CASE OpenHold(r)
    <2>1. UNCHANGED <<disk, writer, told>> /\ proc'[r].moved = None /\ proc'[r].pc = "opened"
      BY <1>0, <1>10 DEF OpenHold, SwappingBy, At, ProcTypes, Row
    <2>2. OnPath' /\ LogInPlace' /\ Told' /\ RestoreLeaves(r)
      BY <1>4, <1>5, <1>7, <2>1 DEF disk, Calm, Told
    <2>3. SwappingBy(r)' /\ Aside(r)
      BY <2>1 DEF SwappingBy, Aside, Swapping, At, disk
    <2> QED
      BY <2>2, <2>3, RestoreCalmBy
  <1>11. CASE Hold(r)
    <2> DEFINE f == File(r)
    <2>1. /\ path = f /\ ~OthersSwap(r) /\ UNCHANGED <<content, readable, path, replaced, backups, told>>
          /\ At(r, "opened") /\ Connected(f) = {} /\ ~Exclusive(f)
          /\ writer' = [writer EXCEPT ![f] = r] /\ log' = None /\ unfolded' = unfolded \ {path}
      BY <1>11 DEF Hold
    <2>2. proc'[r].pc = "held" /\ proc'[r].file = f /\ proc'[r].moved = None
      BY <1>0, <1>11, <2>1 DEF Hold, SwappingBy, At, ProcTypes, Row, File
    <2>3. f \in Files /\ f # None
      BY <1>11, HeldFiles DEF Hold
    <2>4. \A p \in Others : ~Reading(p)
      BY <2>1 DEF Calm, OnPath, Connected, Others, Reading
    <2>5. writer[f] = None
      <3>1. ASSUME NEW q \in Others, writer[f] = q PROVE FALSE
        <4>1. LocksOf(q) /\ q \notin Restorers
          BY Roles DEF FilesInv, Others
        <4>2. q \in Upgraders /\ proc[q].pc \in {"locked", "published"} => Beside(q) = File(q)
          BY DEF Calm, UpgradingBy
        <4>3. File(q) = f /\ ~At(q, "opened")
          BY <2>3, <3>1, <4>1, <4>2 DEF LocksOf, At
        <4> QED
          BY <2>3, <2>4, <4>3 DEF Reading
      <3>2. writer[f] \in Processes \cup {None}
        BY <1>0, <2>3 DEF FileTypes
      <3> QED
        BY <2>1, <3>1, <3>2 DEF Exclusive, Processes, Others
    <2>6. writer'[f] = r /\ \A g \in Files, q \in Processes : q # r /\ writer[g] = q => writer'[g] = q
      BY <1>0, <2>1, <2>3, <2>5, LockedFree
    <2>7. RestoreLeaves(r)
      BY <1>2, <2>1, <2>6 DEF RestoreLeaves
    <2>8. OnPath' /\ LogInPlace' /\ Told'
      BY <1>4, <2>1 DEF LogInPlace, Calm, Told
    <2>9. Alone(r) /\ ~OthersSwap(r)'
      BY <1>2, <2>1, Roles DEF OthersSwap, Alone, Swapping
    <2>10. SwappingBy(r)'
      <3>1. \A p \in Others : ~Reading(p)'
        BY <1>3, <2>4
      <3> HIDE DEF f
      <3> QED
        BY <2>1, <2>2, <2>3, <2>6, <2>9, <3>1 DEF SwappingBy, Swapping, At, File
    <2> QED
      BY <2>1, <2>7, <2>8, <2>9, <2>10, RestoreCalmBy
  <1>12. CASE Link(r)
    <2>1. /\ UNCHANGED <<content, readable, path, log, unfolded, backups, writer, told>> /\ At(r, "held")
          /\ replaced' = replaced \cup {[by |-> r, file |-> path]} /\ Swapping(r)
      BY <1>12 DEF Link, Swapping, At
    <2>2. proc'[r].pc = "linked" /\ proc'[r].file = File(r) /\ proc'[r].moved = proc[r].moved
      BY <1>0, <1>12 DEF Link, Enter, ProcTypes, Row, File
    <2>3. \E n \in replaced' : n.file = path
      <3>1. [by |-> r, file |-> path] \in replaced' /\ [by |-> r, file |-> path].file = path
        BY <2>1
      <3> QED
        BY <3>1
    <2>4. OnPath' /\ LogInPlace' /\ RestoreLeaves(r)
      BY <1>4, <1>5, <1>7, <2>1
    <2>5. Told'
      BY <2>1, ToldStays
    <2>6. ~OthersSwap(r)' /\ \A p \in Others : ~Reading(p)'
      BY <1>0, <1>2, <1>3, <2>1, Roles DEF SwappingBy, OthersSwap, Swapping
    <2>7. SwappingBy(r)'
      BY <1>0, <2>1, <2>2, <2>3, <2>6 DEF SwappingBy, Swapping, At, File
    <2> QED
      BY <1>6, <2>1, <2>4, <2>5, <2>7, RestoreCalmBy
  <1>13. CASE SetLogAside(r)
    <2>1. /\ UNCHANGED <<content, readable, path, unfolded, replaced, backups, writer, told>> /\ At(r, "linked")
          /\ log' = None /\ Swapping(r)
      BY <1>13 DEF SetLogAside, Swapping, At
    <2>2. proc'[r].pc = "aside" /\ proc'[r].file = File(r) /\ proc'[r].moved = log
      BY <1>0, <1>13 DEF SetLogAside, ProcTypes, Row, File
    <2>3. ~(path \in readable /\ path \in unfolded)
      BY <1>0, <2>1, Roles DEF SwappingBy, FileTypes
    <2>4. OnPath' /\ LogInPlace' /\ Told' /\ RestoreLeaves(r)
      BY <1>4, <1>7, <2>1, <2>3 DEF LogInPlace, Calm, Told
    <2>5. ~OthersSwap(r)' /\ \A p \in Others : ~Reading(p)'
      BY <1>0, <1>2, <1>3, <2>1, Roles DEF SwappingBy, OthersSwap, Swapping
    <2>6. log \in {None, path}
      BY DEF Calm, LogInPlace
    <2>7. SwappingBy(r)'
      BY <1>0, <2>1, <2>2, <2>5, <2>6 DEF SwappingBy, Swapping, At, File
    <2> QED
      BY <1>6, <2>1, <2>4, <2>7, RestoreCalmBy
  <1>14. CASE Place(r)
    <2>1. /\ UNCHANGED <<content, readable, log, unfolded, replaced, backups, writer, told>> /\ At(r, "aside")
          /\ path' = Incoming(r) /\ Swapping(r) /\ Staging(r)
      BY <1>14 DEF Place, Incoming, Swapping, Staging, At
    <2>2. proc'[r].pc = "placed" /\ proc'[r].file = File(r)
      BY <1>0, <1>14 DEF Place, Enter, ProcTypes, Row, File
    <2>3. /\ log = None /\ (\A p \in Others : ~Reading(p))
          /\ (path # None => \E n \in replaced : n.file = path)
      BY <1>0, <2>1 DEF SwappingBy
    <2>4. ~Used(Incoming(r))
      BY <1>0, <2>1 DEF StagedBy
    <2>5. OnPath' /\ LogInPlace' /\ RestoreLeaves(r)
      <3>1. Incoming(r) \notin unfolded
        BY <2>4 DEF Used
      <3> QED
        BY <1>3, <1>7, <2>1, <2>3, <3>1 DEF OnPath, LogInPlace
    <2>6. Told'
      <3> SUFFICES ASSUME NEW t \in told
                   PROVE  t.write \in content[t.file].rows /\ \E n \in replaced : n.file = t.file
        BY <2>1 DEF Told
      <3>1. t.file \in Files /\ t.write \in content[t.file].rows
            /\ (t.file = path \/ \E n \in replaced : n.file = t.file)
        BY <1>0 DEF FileTypes, Calm, Told
      <3> QED
        BY <2>3, <3>1, Roles
    <2>7. File(r) # path'
      BY <1>0, <2>1, <2>4 DEF Used
    <2>8. SwappingBy(r)'
      BY <2>2, <2>7 DEF SwappingBy, Swapping, At, File
    <2> QED
      BY <1>6, <2>1, <2>5, <2>6, <2>8, RestoreCalmBy
  <1>15. CASE Release(r)
    <2>1. UNCHANGED <<disk, told>> /\ Unlock(r) /\ proc'[r].pc = "idle" /\ proc'[r].moved = None
      BY <1>0, <1>15, IdleIs DEF Release, ProcTypes
    <2>2. \A f \in Files, q \in Processes : q # r /\ writer[f] = q => writer'[f] = q
      BY <1>0, <2>1, Unlocked
    <2>3. OnPath' /\ LogInPlace' /\ Told' /\ RestoreLeaves(r)
      BY <1>2, <1>4, <1>5, <2>1, <2>2 DEF disk, Calm, Told, RestoreLeaves
    <2>4. SwappingBy(r)' /\ Aside(r)
      BY <2>1 DEF SwappingBy, Aside, Swapping, At, disk
    <2> QED
      BY <2>3, <2>4, RestoreCalmBy
  <1>16. CASE Abandon(r) \/ MoveBack(r)
    <2> DEFINE f == Incoming(r)
    <2>1. /\ UNCHANGED <<path, unfolded, backups, told>> /\ Unlock(r)
          /\ proc'[r].pc = "idle" /\ proc'[r].moved = None
      BY <1>0, <1>16, IdleIs DEF Abandon, MoveBack, ProcTypes
    <2>2. /\ f \in Files /\ ~Used(f) /\ readable' = readable \ {f}
          /\ \A g \in Files : g # f => content'[g] = content[g]
      BY <1>16, Dropped
    <2> HIDE DEF f
    <2>3. f # path /\ \A g \in Files : Used(g) => content'[g] = content[g]
      BY <2>2 DEF Used
    <2>4. \A g \in Files, q \in Processes : q # r /\ writer[g] = q => writer'[g] = q
      BY <1>0, <2>1, Unlocked
    <2>5. OnPath' /\ RestoreLeaves(r)
      BY <1>2, <1>4, <2>1, <2>2, <2>3, <2>4 DEF RestoreLeaves
    <2>6. SwappingBy(r)' /\ ~Swapping(r)'
      BY <2>1 DEF SwappingBy, Swapping, At
    <2>7. CASE UNCHANGED <<log, replaced>>
      <3>1. LogInPlace' /\ Aside(r)
        BY <1>5, <2>1, <2>2, <2>3, <2>6, <2>7 DEF Aside
      <3>2. Told'
        BY <2>1, <2>3, <2>7, ToldStays
      <3> QED
        BY <2>5, <2>6, <3>1, <3>2, RestoreCalmBy
    <2>8. CASE /\ MoveBack(r) /\ log' = IF proc[r].moved = None THEN log ELSE proc[r].moved
               /\ replaced' = replaced \ {[by |-> r, file |-> path]}
      <3>1. Swapping(r) /\ proc[r].moved \in {None, path} /\ log \in {None, path}
        BY <1>0, <2>8 DEF MoveBack, SwappingBy, Swapping, Calm, LogInPlace
      <3>2. ~(path \in readable /\ path \in unfolded)
        BY <1>0, <3>1, Roles DEF SwappingBy, FileTypes
      <3>3. LogInPlace'
        BY <2>1, <2>2, <2>3, <2>8, <3>1, <3>2 DEF LogInPlace
      <3>4. Told'
        <4> SUFFICES ASSUME NEW t \in told
                     PROVE  /\ t.write \in content'[t.file].rows
                            /\ t.file = path \/ \E n \in replaced' : n.file = t.file
          BY <2>1 DEF Told
        <4>1. t.file \in Files /\ Used(t.file)
          BY <1>0 DEF FileTypes, Used
        <4>2. t.write \in content[t.file].rows /\ (t.file = path \/ \E n \in replaced : n.file = t.file)
          BY DEF Calm, Told
        <4>3. \A n \in replaced : n.file # path => n \in replaced'
          BY <2>8
        <4> QED
          BY <2>3, <4>1, <4>2, <4>3
      <3> QED
        BY <1>6, <2>1, <2>5, <2>6, <3>1, <3>3, <3>4, RestoreCalmBy
    <2> QED
      BY <1>16, <2>7, <2>8 DEF Abandon, MoveBack
  <1> QED
    BY <1>8, <1>9, <1>10, <1>11, <1>12, <1>13, <1>14, <1>15, <1>16 DEF RestoreStep

\* What crossed stays so.
LEMMA StillCrossed == [Next]_vars /\ ~crossed' => ~crossed
  BY DEF vars, Next, SessionStep, UpgradeStep, RestoreStep, Open, Begin, Check, CommitWrite, Close, Inspect, Prepare,
     OpenLive, ReadLive, LockLive, Again, Publish, CommitUpgrade, FailUpgrade, Stage, InspectCurrent, OpenHold, Hold,
     Link, SetLogAside, Place, Release, Abandon, MoveBack, Crash

LEMMA NextSwap == SwapInv /\ [Next]_vars => SwapInv'
  <1> SUFFICES ASSUME SwapInv, [Next]_vars PROVE SwapInv'
    OBVIOUS
  <1>1. FilesInv /\ FilesInv'
    BY NextFiles DEF SwapInv
  <1>2. ASSUME ~crossed' PROVE Calm'
    <2>1. Calm
      BY <1>2, StillCrossed DEF SwapInv
    <2>2. CASE UNCHANGED vars
      BY <2>1, <2>2 DEF vars, Calm, OnPath, LogInPlace, Told, WritingBy, UpgradingBy, SwappingBy, Swapping,
         OthersSwap, Reading, Beside, At, File, CopyOf
    <2> QED
      BY <1>1, <1>2, <2>1, <2>2, SessionCalm, UpgradeCalm, RestoreCalm, CrashOthersCalm, CrashRestorerCalm
         DEF Next, Processes, Others
  <1> QED
    BY <1>1, <1>2 DEF SwapInv

LEMMA SwapAlways == Spec => []SwapInv
  BY InitCalm, NextSwap, PTL DEF Spec
-----------------------------------------------------------------------------
\* Until upgrades or restores have crossed, a file changes its schema only into
\* what a published backup can undo: from publishing to committing, the upgrade
\* holds the write lock of the file whose log it opened (upgradeDatabaseFile).
THEOREM UpgradesAreBacked == Spec => UpgradesBacked
  <1> DEFINE Backed == ~crossed' => \A f \in Files :
               content[f] # None /\ content'[f] # None /\ content'[f].version # content[f].version =>
                 /\ CopyOf(f) \in backups
                 /\ content'[f].rows = content[f].rows
  <1>1. SwapInv /\ [Next]_vars => [Backed]_vars
    <2> SUFFICES ASSUME SwapInv, Next, ~crossed', NEW f \in Files, content[f] # None, content'[f] # None,
                        content'[f].version # content[f].version
                 PROVE  CopyOf(f) \in backups /\ content'[f].rows = content[f].rows
      OBVIOUS
    <2>0. FilesInv /\ Calm /\ FileTypes /\ content'[f] # content[f]
      BY StillCrossed, Types DEF SwapInv, FilesInv
    <2>1. ASSUME NEW s \in Sessions, SessionStep(s) PROVE FALSE
      <3>1. CASE CommitWrite(s)
        BY <2>0, <3>1, Written
      <3>2. CASE Open(s) \/ Begin(s) \/ Check(s) \/ Close(s)
        BY <2>0, <3>2 DEF Open, Begin, Check, Close, disk
      <3> QED
        BY <2>1, <3>1, <3>2 DEF SessionStep
    <2>2. ASSUME NEW u \in Upgraders, UpgradeStep(u)
          PROVE  CopyOf(f) \in backups /\ content'[f].rows = content[f].rows
      <3>1. CASE CommitUpgrade(u)
        <4>1. Beside(u) = File(u) /\ CopyOf(File(u)) \in backups
          BY <2>0, <3>1 DEF Calm, UpgradingBy, CommitUpgrade, At
        <4>2. f = File(u) /\ content'[f].rows = content[f].rows
          BY <2>0, <3>1, <4>1, Upgraded
        <4> QED
          BY <4>1, <4>2
      <3>2. CASE \/ Inspect(u) \/ Prepare(u) \/ OpenLive(u) \/ ReadLive(u) \/ LockLive(u) \/ Again(u)
                 \/ Publish(u) \/ FailUpgrade(u)
        BY <2>0, <3>2 DEF Inspect, Prepare, OpenLive, ReadLive, LockLive, Again, Publish, FailUpgrade, disk
      <3> QED
        BY <2>2, <3>1, <3>2 DEF UpgradeStep
    <2>3. ASSUME NEW r \in Restorers, RestoreStep(r) PROVE FALSE
      <3>1. ASSUME NEW b \in backups, NEW g \in Files, Stage(r, b, g) PROVE FALSE
        BY <2>0, <3>1 DEF Stage, FileTypes
      <3>2. CASE Abandon(r) \/ MoveBack(r)
        BY <2>0, <3>2 DEF Abandon, MoveBack, FileTypes
      <3>3. CASE Hold(r)
        BY <2>0, <3>3 DEF Hold
      <3>4. CASE InspectCurrent(r) \/ OpenHold(r) \/ Link(r) \/ SetLogAside(r) \/ Place(r) \/ Release(r)
        BY <2>0, <3>4 DEF InspectCurrent, OpenHold, Link, SetLogAside, Place, Release, disk
      <3> QED
        BY <2>3, <3>1, <3>2, <3>3, <3>4 DEF RestoreStep
    <2>4. ASSUME NEW p \in Processes, Crash(p) PROVE FALSE
      BY <2>0, <2>4 DEF Crash, disk
    <2> QED
      BY <2>1, <2>2, <2>3, <2>4 DEF Next
  <1> QED
    BY <1>1, SwapAlways, PTL DEF Spec, UpgradesBacked

\* Until then, a caller is told of a write's success only by a build of the
\* file's version: the version is looked at under the write lock it commits
\* under (runProjectOperation).
THEOREM WritesAtOwnVersion == Spec => OwnVersion
  <1> DEFINE Own == ~crossed' => \A t \in told' \ told : content[t.file].version = Build[t.by]
  <1>1. SwapInv /\ [Next]_vars => [Own]_vars
    <2> SUFFICES ASSUME SwapInv, Next, ~crossed', NEW t \in told', t \notin told
                 PROVE  content[t.file].version = Build[t.by]
      OBVIOUS
    <2>1. PICK s \in Sessions : CommitWrite(s)
      BY DEF Next, SessionStep, UpgradeStep, RestoreStep, Open, Begin, Check, Close, Inspect, Prepare, OpenLive,
         ReadLive, LockLive, Again, Publish, CommitUpgrade, FailUpgrade, Stage, InspectCurrent, OpenHold, Hold, Link,
         SetLogAside, Place, Release, Abandon, MoveBack, Crash
    <2>2. t.file = File(s) /\ t.by = s /\ At(s, "committing")
      BY <2>1 DEF CommitWrite
    <2>3. Calm
      BY StillCrossed DEF SwapInv
    <2> QED
      BY <2>2, <2>3 DEF Calm, WritingBy
  <1> QED
    BY <1>1, SwapAlways, PTL DEF Spec, OwnVersion

\* Until then, every write whose caller was told of its success is in a file
\* that still has a name, however many upgrade and restore
\* (restoreDatabaseFileBackup).
THEOREM ToldAreKept == Spec => []ToldKept
  <1>1. SwapInv => ToldKept
    BY DEF SwapInv, Calm, Told, ToldKept
  <1> QED
    BY <1>1, SwapAlways, PTL

\* Until then, the path of a database that can be opened names a whole one at
\* every moment, crashes between any two calls included
\* (restoreDatabaseFileBackup).
THEOREM PathIsWhole == Spec => []PathWhole
  <1>1. SwapInv => PathWhole
    <2> SUFFICES ASSUME SwapInv, ~crossed, path # None, path \in readable
                 PROVE  content[path] # None /\ log \in {None, path} /\ (path \in unfolded => log = path)
      BY DEF PathWhole, Whole
    <2>1. path \in Files
      BY Types DEF SwapInv, FilesInv, FileTypes
    <2> QED
      BY <2>1 DEF SwapInv, Calm, LogInPlace, FilesInv, Filed, Used
  <1> QED
    BY <1>1, SwapAlways, PTL
=============================================================================
