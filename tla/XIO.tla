-------------------------------- MODULE XIO --------------------------------
(***************************************************************************)
(* Buffered file I/O: xio's list of files, the sections written to each    *)
(* (xfile), and their commit.  The list is in the library's memory: every  *)
(* process has its own, fork copies it and no rollback restores it.        *)
(*                                                                         *)
(* Every operation makes its transaction irrevocable first, so that it is  *)
(* done by the first thread in order (ForkJoin) and never rolled back      *)
(* (XThread).  The position of a file and the offset of a section are      *)
(* written and never read.                                                 *)
(***************************************************************************)
EXTENDS Naturals, Sequences

CONSTANTS
    IoProcs,        \* the processes, and
    IoMain,         \* the one of main()
    IoFds,          \* the descriptors; each is used for one file
    IoSockets,      \* those of them that are sockets
    IoMaxWrites,    \* bound: the writes to a file
    IoOptimized     \* which programs there are: TRUE stands for those some of
                    \* whose transactions touch nothing

ASSUME IoAssumption ==
    IoMain \in IoProcs /\ IoSockets \subseteq IoFds /\ IoMaxWrites \in Nat /\ IoOptimized \subseteq BOOLEAN

VARIABLES
    ioBorn, ioFinished, ioEarlier,      \* the order, as in ForkJoin
    ioMayOptimize,  \* which program this is
    kernelFds,      \* the descriptors a process has open
    filelist,       \* _filelist: each file's descriptor, sections and _closed
    disk,           \* what has been written to the files
    ioLost,         \* a process has used an erased iterator or a null pointer,
                    \* and may do anything
    calls           \* history: how many writes to a file have been accepted

ioOrder == <<ioBorn, ioFinished, ioEarlier, ioMayOptimize>>
ioVars == <<ioOrder, kernelFds, filelist, disk, ioLost, calls>>

IoOrder == INSTANCE ForkJoin
    WITH Threads <- IoProcs, Main <- IoMain, publishing <- {},
         born <- ioBorn, finished <- ioFinished, earlier <- ioEarlier

IoInit ==
    /\ IoOrder!Init
    /\ ioMayOptimize \in IoOptimized
    /\ kernelFds = [p \in IoProcs |-> {}]
    /\ filelist = [p \in IoProcs |-> <<>>]
    /\ disk = [f \in IoFds |-> <<>>]
    /\ ioLost = FALSE
    /\ calls = [f \in IoFds |-> 0]

\* ensureIrrevocable.
Irrevocable(p) == IoOrder!First(p) /\ ~ioLost

\* A file starts with no sections, open.
NewFile(f) == [fd |-> f, sects |-> <<>>, closed |-> FALSE]

\* list_add
ListAdd(p, file) == filelist' = [filelist EXCEPT ![p] = Append(@, file)]

\* get_file: the first entry of the list that has the descriptor.
Entry(p, f) == {i \in 1 .. Len(filelist[p]) : filelist[p][i].fd = f}

\* remote_open and remote_creat give a descriptor that nobody has used.
RemoteOpen(p, f) ==
    /\ \A q \in IoProcs : f \notin kernelFds[q] /\ Entry(q, f) = {}
    /\ disk[f] = <<>> /\ calls[f] = 0
    /\ kernelFds' = [kernelFds EXCEPT ![p] = @ \cup {f}]

RemoteClose(p, fds) == kernelFds' = [kernelFds EXCEPT ![p] = @ \ fds]
RemoteWrite(f, data) == Append(disk[f], data)
-----------------------------------------------------------------------------
\* commit, first loop.  A file's sections are written and erased from the
\* front; with a second one the iterator that goes on has been erased.
FirstSections(p) ==
    [f \in IoFds |->
        IF \E i \in Entry(p, f) : filelist[p][i].sects # <<>>
        THEN RemoteWrite(f, Head(filelist[p][CHOOSE i \in Entry(p, f) : TRUE].sects))
        ELSE disk[f]]
SectionsErased(p) == \E i \in 1 .. Len(filelist[p]) : Len(filelist[p][i].sects) > 1

\* Second loop.  A closed file is closed and erased; unless it is the last of the
\* list, the iterator that goes on has been erased, and the list may be anything.
Closed(p) == {i \in 1 .. Len(filelist[p]) : filelist[p][i].closed}
FilesErased(p) == Closed(p) \ {Len(filelist[p])} # {}

Written(f) == [f EXCEPT !.sects = <<>>]
WithoutClosed(l) ==
    [i \in 1 .. (IF l # <<>> /\ l[Len(l)].closed THEN Len(l) - 1 ELSE Len(l)) |-> Written(l[i])]

\* Seeded fault: the loop that closes comes first, and nothing is left to write.
CommitIOClosesFirst(p) ==
    /\ RemoteClose(p, {filelist[p][i].fd : i \in Closed(p)})
    /\ filelist' = [filelist EXCEPT ![p] = WithoutClosed(@)]
    /\ disk' = [f \in IoFds |-> IF Entry(p, f) \cap Closed(p) # {} THEN disk[f]
                                ELSE FirstSections(p)[f]]
    /\ ioLost' = (SectionsErased(p) \/ FilesErased(p))

CommitIO(p) ==
    /\ RemoteClose(p, {filelist[p][i].fd : i \in Closed(p)})
    /\ filelist' = [filelist EXCEPT ![p] = WithoutClosed(@)]
    /\ disk' = FirstSections(p)
    /\ ioLost' = (SectionsErased(p) \/ FilesErased(p))
-----------------------------------------------------------------------------
\* open and accept that succeed: their descriptor is new.
IoOpen(p, f) ==
    /\ Irrevocable(p)
    /\ RemoteOpen(p, f)
    /\ ListAdd(p, NewFile(f))
    /\ UNCHANGED <<ioOrder, disk, ioLost, calls>>

\* connect of a descriptor that the list does not know, from socket; whether the
\* connection is made or not, the descriptor is returned.
IoConnect(p, f, made) ==
    /\ Irrevocable(p)
    /\ f \in kernelFds[p] /\ Entry(p, f) = {}
    /\ IF made THEN ListAdd(p, NewFile(f)) ELSE UNCHANGED filelist
    /\ UNCHANGED <<ioOrder, kernelFds, disk, ioLost, calls>>

\* creat, dup, pipe and socket: the list does not know of it.
IoCreat(p, f) ==
    /\ Irrevocable(p)
    /\ RemoteOpen(p, f)
    /\ UNCHANGED <<ioOrder, filelist, disk, ioLost, calls>>

\* write to a file of the list: a copy of the data is kept.  (Other writes fail
\* with EBADF.)
IoWrite(p, f) ==
    /\ Irrevocable(p)
    /\ calls[f] < IoMaxWrites
    /\ \E i \in Entry(p, f) :
        filelist' = [filelist EXCEPT ![p][i].sects = Append(@, calls[f] + 1)]
    /\ calls' = [calls EXCEPT ![f] = @ + 1]
    /\ UNCHANGED <<ioOrder, kernelFds, disk, ioLost>>

\* close only leaves a mark.
IoClose(p, f) ==
    /\ Irrevocable(p)
    /\ \E i \in Entry(p, f) : filelist' = [filelist EXCEPT ![p][i].closed = TRUE]
    /\ UNCHANGED <<ioOrder, kernelFds, disk, ioLost, calls>>

\* read, and lseek of a file of the list.
IoRead(p) ==
    /\ Irrevocable(p)
    /\ CommitIO(p)
    /\ UNCHANGED <<ioOrder, calls>>

\* lseek of a descriptor that the list does not know.
IoSeekUnknown(p, f) ==
    /\ Irrevocable(p)
    /\ f \in kernelFds[p] /\ Entry(p, f) = {}
    /\ ioLost' = TRUE
    /\ UNCHANGED <<ioOrder, kernelFds, filelist, disk, calls>>

\* atomicEnd: a commit commits the files too, the NULL optimisation does not.
IoEnd(p, touched) ==
    /\ p \in ioBorn \ ioFinished /\ ~ioLost
    /\ IF touched THEN IoOrder!First(p) /\ CommitIO(p)
       ELSE ioMayOptimize /\ UNCHANGED <<kernelFds, filelist, disk, ioLost>>

IoPunctuate(p, touched) ==
    /\ IoEnd(p, touched)
    /\ UNCHANGED <<ioOrder, calls>>

\* fork, which atomicEnd comes before.  (The step before has ended p's
\* transaction.)
IoFork(p, c) ==
    /\ ~ioLost
    /\ ioMayOptimize \/ \A i \in 1 .. Len(filelist[p]) : filelist[p][i].sects = <<>>
                                                          /\ ~filelist[p][i].closed
    /\ IoOrder!Spawn(p, c)
    /\ kernelFds' = [kernelFds EXCEPT ![c] = kernelFds[p]]
    /\ filelist' = [filelist EXCEPT ![c] = filelist[p]]
    /\ UNCHANGED <<ioMayOptimize, disk, ioLost, calls>>

\* A process ends, after its last atomicEnd.
IoExit(p, touched) ==
    /\ IoEnd(p, touched)
    /\ IoOrder!Finish(p)
    /\ UNCHANGED <<ioMayOptimize, calls>>

IoNext ==
    \E p \in IoProcs :
        \/ IoRead(p)
        \/ \E f \in IoFds : IoOpen(p, f) \/ IoCreat(p, f) \/ IoWrite(p, f) \/ IoClose(p, f) \/ IoSeekUnknown(p, f)
        \/ \E f \in IoSockets, made \in BOOLEAN : IoConnect(p, f, made)
        \/ \E touched \in BOOLEAN : IoPunctuate(p, touched) \/ IoExit(p, touched)
        \/ \E c \in IoProcs : IoFork(p, c)

IoSpec == IoInit /\ [][IoNext]_ioVars
-----------------------------------------------------------------------------
\* As long as no iterator was used after it was erased, a process never keeps what it
\* has written of a file whose descriptor it has already closed: closing waits for
\* the commit.  If every transaction touches something, a file gets what was written
\* to it, once and in the order of the calls, by whichever processes, and all of it
\* when the program is over.
WritesReachTheFile ==
    ~ioLost =>
        /\ \A p \in IoProcs : \A i \in 1 .. Len(filelist[p]) : filelist[p][i].fd \in kernelFds[p]
        /\ ~ioMayOptimize =>
              \A f \in IoFds : /\ \A n \in 1 .. Len(disk[f]) : disk[f][n] = n
                               /\ ioFinished = ioBorn => Len(disk[f]) = calls[f]
=============================================================================
