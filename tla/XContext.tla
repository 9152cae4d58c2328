------------------------------ MODULE XContext ------------------------------
(***************************************************************************)
(* Saving and restoring the calling context (xcontext): a copy of the      *)
(* stack from the word at _pbos to the word at the top, and a rollback     *)
(* that writes it back from a frame which has to be out of the way.        *)
(*                                                                         *)
(* A stack is a sequence of words; its first word is the highest address.  *)
(***************************************************************************)
EXTENDS Naturals, Sequences

CONSTANTS
    XcWords,        \* what a word may be
    XcAbovePbos,    \* how many words of the program's stack lie above _pbos
    XcMaxDepth,     \* bound: the words a stack may have
    XcMaxStackSize, \* MAX_STACK_SIZE, the words _stack holds
    XcFrame         \* the words of a frame of restoreStack

ASSUME XcAssumption ==
    /\ XcAbovePbos \in Nat /\ XcMaxDepth \in Nat /\ XcMaxStackSize \in Nat /\ XcFrame \in Nat \ {0}

VARIABLES
    stack,          \* the stack
    saved,          \* _stack
    tos,            \* where in a frame of restoreStack its variable tos is (it
                    \* is up to the compiler)
    overrun,        \* the copy has been written beyond the end of _stack
    trampled,       \* restoreStack has written over its own frame
    committed       \* history: the stack at the last commit

xcVars == <<stack, saved, tos, overrun, trampled, committed>>

XcInit ==
    /\ stack \in [1 .. XcAbovePbos + 1 -> XcWords]
    /\ saved = SubSeq(stack, XcAbovePbos + 1, Len(stack))
    /\ tos \in 1 .. XcFrame
    /\ overrun = FALSE
    /\ trampled = FALSE
    /\ committed = stack

\* What the program does with its stack.
XcPush(w) ==
    /\ Len(stack) < XcMaxDepth
    /\ stack' = Append(stack, w)
    /\ UNCHANGED <<saved, tos, overrun, trampled, committed>>

XcPop ==
    /\ Len(stack) > XcAbovePbos + 1
    /\ stack' = SubSeq(stack, 1, Len(stack) - 1)
    /\ UNCHANGED <<saved, tos, overrun, trampled, committed>>

XcAssign(i, w) ==
    /\ i \in 1 .. Len(stack)
    /\ stack' = [stack EXCEPT ![i] = w]
    /\ UNCHANGED <<saved, tos, overrun, trampled, committed>>

\* Seeded fault: the last word is not copied.
XcCommitShort ==
    /\ saved' = SubSeq(stack, XcAbovePbos + 1, Len(stack) - 1)
    /\ overrun' = (overrun \/ Len(saved') > XcMaxStackSize)
    /\ committed' = stack
    /\ UNCHANGED <<stack, tos, trampled>>

\* commit (the frames of atomicBegin, commit and getContext are on the stack).
XcCommit ==
    /\ saved' = SubSeq(stack, XcAbovePbos + 1, Len(stack))
    /\ overrun' = (overrun \/ Len(saved') > XcMaxStackSize)
    /\ committed' = stack
    /\ UNCHANGED <<stack, tos, trampled>>

\* The end of what is restored.
RestoredEnd == XcAbovePbos + Len(saved)

\* restoreStack(1), called on a stack of so many words, calls itself until tos is
\* deeper than what is restored, and then once more: the frame that copies
\* starts behind the word returned here.
CopyFrame(depth) ==
    LET deeper[d \in Nat] == IF d + tos < RestoredEnd THEN deeper[d + XcFrame] ELSE d + XcFrame
    IN  deeper[depth]

\* abort.
XcAbort ==
    /\ ~overrun
    /\ stack' = SubSeq(stack, 1, XcAbovePbos) \o saved
    /\ trampled' = (trampled \/ CopyFrame(Len(stack)) < RestoredEnd)
    /\ UNCHANGED <<saved, tos, overrun, committed>>

XcNext ==
    \/ \E w \in XcWords : XcPush(w) \/ \E i \in 1 .. XcMaxDepth : XcAssign(i, w)
    \/ XcPop \/ XcCommit \/ XcAbort

XcSpec == XcInit /\ [][XcNext]_xcVars
-----------------------------------------------------------------------------
\* A rollback gives the program the stack it had at its last commit, as far as it
\* lies below _pbos, unless an earlier commit has written beyond _stack.  And
\* wherever the compiler puts tos, and whether the stack has grown or shrunk since
\* the commit, restoreStack never writes over the frame it runs in.
RollbackRestores ==
    [][XcAbort => /\ Len(stack') = Len(committed)
                  /\ \A i \in XcAbovePbos + 1 .. Len(committed) : stack'[i] = committed[i]
                  /\ ~trampled']_xcVars
=============================================================================
