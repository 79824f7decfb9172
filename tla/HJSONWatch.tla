----------------------------- MODULE HJSONWatch -----------------------------
(***************************************************************************)
(* cmd/hjsonwatch: the loop that watches a tree of *.hjson files and runs  *)
(* the whole import again after a change. Users write, remove and move     *)
(* files and directories; the kernel queues an event for a change in a     *)
(* watched directory; the loop handles events one at a time, arms a        *)
(* debounce timer whose goroutine sends on a channel of capacity one, and  *)
(* imports when it receives from it. An import reads file after file while *)
(* users go on writing.                                                    *)
(*                                                                         *)
(* Each directory holds at most one file; the content of a file is the     *)
(* number of the edit that wrote it, 0 when there is none. MaxEdits bounds *)
(* the edits, QueueCap the kernel's queue.                                 *)
(***************************************************************************)
EXTENDS Integers, Sequences, FiniteSets, SequencesExt

CONSTANTS Dirs, RootDir, Parent,  \* the places of the tree, Parent[d] of all but RootDir
          MaxEdits, QueueCap

\* d and the directories below it: whatever holds d and the children of all it holds.
HoldsChildren(S) == \A f \in Dirs \ {RootDir} : Parent[f] \in S => f \in S
Below == [d \in Dirs |-> {e \in Dirs : \A S \in SUBSET Dirs : d \in S /\ HoldsChildren(S) => e \in S}]

ASSUME TreeAssumption ==
    /\ RootDir \in Dirs /\ IsFiniteSet(Dirs) /\ Parent \in [Dirs \ {RootDir} -> Dirs]
    /\ Below[RootDir] = Dirs
    /\ MaxEdits \in Nat /\ QueueCap \in Nat

None == 0   \* no file

VARIABLES exists, disk,       \* directories there are, file in each
          edits,              \* number of edits made
          queue, watched,     \* kernel events [kind, dir]; directories registered
          pc,                 \* "boot" | "walk" | "import" | "select" | "exit"
          walk,               \* addDirsRecursively: directories left to register or to list
          pending, armed, senders, trigger,   \* loop variable, timer, its goroutines, channel
          toRead, snap,       \* the import under way: places to read, content read
          db, lastOK,         \* content of the store, whether the last import succeeded
          missed, blind       \* history: changes no event told; a directory was not registered

tree == <<exists, disk, edits>>
timer == <<pending, armed, senders, trigger>>
import == <<toRead, snap, db, lastOK>>
vars == <<tree, queue, watched, pc, walk, timer, import, missed, blind>>

Empty == [d \in Dirs |-> None]
Children(d) == {e \in exists \ {RootDir} : Parent[e] = d}

-----------------------------------------------------------------------------
(* Users and the kernel.                                                    *)

Seen(d) == d \in watched /\ Len(queue) < QueueCap
Notify(kind, d, in) == queue' = IF Seen(in) THEN Append(queue, [kind |-> kind, dir |-> d]) ELSE queue
Edit == edits < MaxEdits /\ edits' = edits + 1
Others == <<pc, walk, timer, import>>

Changed(d, content) ==
    /\ Edit
    /\ disk' = [disk EXCEPT ![d] = content]
    /\ Notify("file", d, d)
    /\ missed' = IF Seen(d) THEN missed \ {d} ELSE missed \cup {d}
    /\ UNCHANGED <<exists, watched, blind, Others>>
WriteFile(d) == d \in exists /\ Changed(d, edits + 1)
RemoveFile(d) == disk[d] # None /\ Changed(d, None)

\* A directory appears, empty or moved in with the directories N and a file in each.
Appear(d, N, content) ==
    /\ d \notin exists /\ d # RootDir /\ Parent[d] \in exists
    /\ N \subseteq Below[d] /\ d \in N /\ \A e \in N \ {d} : Parent[e] \in N
    /\ Edit
    /\ exists' = exists \cup N
    /\ disk' = [e \in Dirs |-> IF e \in N THEN content ELSE disk[e]]
    /\ Notify("dir", d, Parent[d])
    /\ missed' = IF content = None THEN missed ELSE missed \cup N
    /\ blind' = (blind \/ (Parent[d] \in watched /\ ~Seen(Parent[d])))
    /\ UNCHANGED <<watched, Others>>
MkDir(d) == Appear(d, {d}, None)
MoveIn(d) == \E N \in SUBSET Below[d] : Appear(d, N, edits + 1)

\* A directory leaves with all it holds: the loop is told a name that is no *.hjson.
MoveAway(d) ==
    /\ d \in exists \ {RootDir} /\ Edit
    /\ exists' = exists \ Below[d] /\ watched' = watched \ Below[d]
    /\ disk' = [e \in Dirs |-> IF e \in Below[d] THEN None ELSE disk[e]]
    /\ missed' = missed \cup {e \in Below[d] : disk[e] # None}
    /\ UNCHANGED <<queue, blind, Others>>

-----------------------------------------------------------------------------
(* main.                                                                    *)

Register(d) == [op |-> "add", dir |-> d]
List(d) == [op |-> "list", dir |-> d]

Init == /\ exists \in {{RootDir}, Dirs} /\ disk = Empty /\ edits = 0
        /\ queue = << >> /\ watched = {}
        /\ pc = "boot" /\ walk = <<Register(RootDir)>>
        /\ pending = FALSE /\ armed = FALSE /\ senders = 0 /\ trigger = 0
        /\ toRead = {} /\ snap = Empty /\ db = Empty /\ lastOK = FALSE
        /\ missed = {} /\ blind = FALSE

\* filepath.WalkDir: register a directory, then list it and go on with its children.
\* A directory that is gone ends the whole walk; at startup, the program.
Walking == pc \in {"boot", "walk"} /\ walk # << >>
WalkAdd ==
    /\ Walking /\ Head(walk).op = "add" /\ Head(walk).dir \in exists
    /\ watched' = watched \cup {Head(walk).dir}
    /\ walk' = <<List(Head(walk).dir)>> \o Tail(walk)
    /\ UNCHANGED <<tree, queue, pc, timer, import, missed, blind>>
AddsTopOnly ==
    /\ Walking /\ Head(walk).op = "list" /\ Head(walk).dir \in exists
    /\ walk' = Tail(walk)
    /\ UNCHANGED <<tree, queue, watched, pc, timer, import, missed, blind>>
WalkList ==
    /\ Walking /\ Head(walk).op = "list" /\ Head(walk).dir \in exists
    /\ walk' = SetToSeq({Register(e) : e \in Children(Head(walk).dir)}) \o Tail(walk)
    /\ UNCHANGED <<tree, queue, watched, pc, timer, import, missed, blind>>
WalkFails ==
    /\ Walking /\ Head(walk).dir \notin exists
    /\ walk' = << >> /\ blind' = TRUE
    /\ pc' = IF pc = "boot" THEN "exit" ELSE "select"
    /\ UNCHANGED <<tree, queue, watched, timer, import, missed>>

\* runImport: the store is wiped first, then place after place is read.
StartImport == pc' = "import" /\ toRead' = Dirs /\ snap' = Empty /\ db' = Empty /\ UNCHANGED lastOK

WalkDone ==
    /\ pc \in {"boot", "walk"} /\ walk = << >>
    /\ IF pc = "boot" THEN StartImport ELSE pc' = "select" /\ UNCHANGED import
    /\ UNCHANGED <<tree, queue, watched, walk, timer, missed, blind>>

ReadPlace(d) ==
    /\ pc = "import" /\ d \in toRead
    /\ toRead' = toRead \ {d} /\ snap' = [snap EXCEPT ![d] = disk[d]]
    /\ missed' = missed \ {d}
    /\ UNCHANGED <<tree, queue, watched, pc, walk, timer, db, lastOK, blind>>
DrainsEvents ==
    /\ pc = "import" /\ toRead = {}
    /\ pc' = "select" /\ db' = snap /\ lastOK' = TRUE /\ queue' = << >>
    /\ UNCHANGED <<tree, watched, walk, timer, toRead, snap, missed, blind>>
ImportDone ==
    /\ pc = "import" /\ toRead = {}
    /\ pc' = "select" /\ db' = snap /\ lastOK' = TRUE
    /\ UNCHANGED <<tree, queue, watched, walk, timer, toRead, snap, missed, blind>>
RetriesAtOnce ==
    /\ pc = "import"
    /\ StartImport
    /\ UNCHANGED <<tree, queue, watched, walk, timer, missed, blind>>
ImportFails ==
    /\ pc = "import"
    /\ pc' = "select" /\ lastOK' = FALSE /\ toRead' = {} /\ snap' = Empty
    /\ UNCHANGED <<tree, queue, watched, walk, timer, db, missed, blind>>

\* case event := <-watcher.Events. A new directory is registered and nothing else
\* is done about it; one that is gone again is not even that.
HandleEvent ==
    /\ pc = "select" /\ queue # << >> /\ queue' = Tail(queue)
    /\ LET e == Head(queue)
       IN  \/ /\ e.kind = "dir" /\ e.dir \in exists
              /\ pc' = "walk" /\ walk' = <<Register(e.dir)>> /\ UNCHANGED timer
           \/ /\ e.kind = "dir" /\ e.dir \notin exists
              /\ UNCHANGED <<pc, walk, timer>>
           \/ /\ e.kind = "file"
              /\ pending' = TRUE /\ armed' = TRUE
              /\ UNCHANGED <<pc, walk, senders, trigger>>
    /\ UNCHANGED <<tree, watched, import, missed, blind>>

\* The debounce window ends; the timer's goroutine sends, blocking while one waits.
Fire ==
    /\ armed /\ armed' = FALSE /\ senders' = senders + 1
    /\ UNCHANGED <<tree, queue, watched, pc, walk, pending, trigger, import, missed, blind>>
NeverBlocks ==
    /\ senders > 0 /\ senders' = senders - 1 /\ trigger' = trigger + 1
    /\ UNCHANGED <<tree, queue, watched, pc, walk, pending, armed, import, missed, blind>>
Send ==
    /\ senders > 0 /\ trigger = 0
    /\ senders' = senders - 1 /\ trigger' = 1
    /\ UNCHANGED <<tree, queue, watched, pc, walk, pending, armed, import, missed, blind>>

\* case <-trigger.
HandleTrigger ==
    /\ pc = "select" /\ trigger > 0 /\ trigger' = trigger - 1
    /\ IF pending THEN pending' = FALSE /\ StartImport ELSE UNCHANGED <<pc, pending, import>>
    /\ UNCHANGED <<tree, queue, watched, walk, armed, senders, missed, blind>>

Loop == \/ WalkAdd \/ WalkList \/ WalkFails \/ WalkDone
        \/ (\E d \in Dirs : ReadPlace(d)) \/ ImportDone \/ ImportFails
        \/ HandleEvent \/ HandleTrigger
Users == \E d \in Dirs : WriteFile(d) \/ RemoveFile(d) \/ MkDir(d) \/ MoveIn(d) \/ MoveAway(d)
Next == Users \/ Loop \/ Fire \/ Send

\* The loop runs whenever it can, timers fire and their goroutines are scheduled.
\* Users owe nothing.
Spec == Init /\ [][Next]_vars /\ WF_vars(Loop) /\ WF_vars(Fire) /\ WF_vars(Send)

-----------------------------------------------------------------------------
(* Properties.                                                              *)

Quiescent == pc = "select" /\ queue = << >> /\ ~armed /\ senders = 0 /\ trigger = 0

\* The channel holds one tick, a directory is registered only while it exists, and
\* nothing waits for a tick that will not come.
TypeOK == /\ trigger \in {0, 1} /\ senders \in 0 .. MaxEdits
          /\ watched \subseteq exists
          /\ pending => armed \/ senders > 0 \/ trigger > 0

\* Once the loop has come to rest after a successful import, every change the kernel
\* told it about is in the store, those made while an import was reading included.
NoticedChangesImported ==
    Quiescent /\ lastOK => \A d \in Dirs : db[d] = disk[d] \/ d \in missed

\* Every directory is registered or will be when the queued events are handled, however
\* its creation interleaved with the walk that should find it - unless a walk was cut
\* short or the kernel's queue overflowed.
EveryDirWatched ==
    pc \in {"import", "select"} /\ ~blind =>
       \A d \in exists : \/ d \in watched
                         \/ \E i \in DOMAIN queue : queue[i].kind = "dir" /\ d \in Below[queue[i].dir]

\* When users stop, the loop comes to rest: a burst is not imported again and again.
SettlesDown == <>[](Quiescent \/ pc = "exit")

-----------------------------------------------------------------------------
(* The strengthening of TypeOK, NoticedChangesImported and EveryDirWatched  *)
(* that is inductive.                                                       *)

Event == [kind : {"file", "dir"}, dir : Dirs]
Entry == [op : {"add", "list"}, dir : Dirs]
Kinds == /\ exists \subseteq Dirs /\ watched \subseteq exists /\ missed \subseteq Dirs /\ toRead \subseteq Dirs
         /\ disk \in [Dirs -> Nat] /\ snap \in [Dirs -> Nat] /\ db \in [Dirs -> Nat] /\ edits \in 0 .. MaxEdits
         /\ queue \in Seq(Event) /\ walk \in Seq(Entry)
         /\ pc \in {"boot", "walk", "import", "select", "exit"}
         /\ senders \in Nat /\ trigger \in {0, 1}

\* A directory exists only in one that does, a file only in one too.
TreeWhole == /\ \A d \in exists \ {RootDir} : Parent[d] \in exists
             /\ \A d \in Dirs \ exists : disk[d] = None

\* Ticks and events under way come from different edits; a change waits for a tick.
TicksCounted == /\ senders + Len(queue) + (IF armed THEN 1 ELSE 0) <= edits
                /\ pending => armed \/ senders > 0 \/ trigger > 0

\* What is read, or in the store, is current, missed, or about to be imported again.
Told == pending \/ \E i \in DOMAIN queue : queue[i].kind = "file"
Current(content, d) == content[d] = disk[d] \/ d \in missed \/ Told
ContentCurrent == /\ pc = "boot" => ~lastOK
                  /\ pc = "import" => \A d \in Dirs \ toRead : Current(snap, d)
                  /\ pc \in {"walk", "select"} /\ lastOK => \A d \in Dirs : Current(db, d)

\* A directory is registered, announced, or ahead of the walk.
Announced(d) == \E i \in DOMAIN queue : queue[i].kind = "dir" /\ d \in Below[queue[i].dir]
AheadOfWalk(d) ==
    \E i \in DOMAIN walk : d \in Below[walk[i].dir] /\ (walk[i].op = "list" => d # walk[i].dir)
DirsCovered == /\ pc \in {"import", "select"} => walk = << >>
               /\ ~blind => \A d \in exists : d \in watched \/ Announced(d) \/ AheadOfWalk(d)

WatchInv == Kinds /\ TreeWhole /\ TicksCounted /\ ContentCurrent /\ DirsCovered
=============================================================================
