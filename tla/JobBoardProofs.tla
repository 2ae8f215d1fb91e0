--------------------------- MODULE JobBoardProofs ---------------------------
(***************************************************************************)
(* The board keeps its promises for any set of jobs and printers.          *)
(***************************************************************************)
EXTENDS JobBoard, TLAPS

LEMMA InitHolds == Init => BoardInv
  BY DEF Init, BoardInv, BoardTypeOK, States, Exclusive, NeverAgain, Placed

\* A change of one job's state that leaves the places alone.
LEMMA SubmitKeeps == ASSUME BoardInv, NEW j \in Jobs, Submit(j) PROVE BoardInv'
  BY DEF BoardInv, BoardTypeOK, States, Exclusive, NeverAgain, Placed, Submit

LEMMA AssignKeeps ==
    ASSUME Nowhere \notin Printers, BoardInv,
           NEW j \in Jobs, NEW p \in Printers, Assign(j, p)
    PROVE  BoardInv'
  <1>1. p # Nowhere OBVIOUS
  <1>2. BoardTypeOK' BY DEF BoardInv, BoardTypeOK, States, Assign
  <1>3. Exclusive' BY <1>1 DEF BoardInv, BoardTypeOK, Exclusive, Assign
  <1>4. NeverAgain' /\ Placed'
    BY <1>1 DEF BoardInv, BoardTypeOK, NeverAgain, Placed, Assign
  <1> QED BY <1>2, <1>3, <1>4 DEF BoardInv

LEMMA BeginKeeps == ASSUME BoardInv, NEW j \in Jobs, Begin(j) PROVE BoardInv'
  BY DEF BoardInv, BoardTypeOK, States, Exclusive, NeverAgain, Placed, Begin

\* Only a job that has not begun goes back to waiting.
LEMMA ReturnKeeps == ASSUME BoardInv, NEW j \in Jobs, Return(j) PROVE BoardInv'
  BY DEF BoardInv, BoardTypeOK, States, Exclusive, NeverAgain, Placed, Return

LEMMA CloseKeeps ==
    ASSUME BoardInv, NEW S \in SUBSET Jobs, Close(S) \/ Reopen(S)
    PROVE  BoardInv'
  <1>1. CASE Close(S)
    BY <1>1 DEF BoardInv, BoardTypeOK, States, Exclusive, NeverAgain, Placed, Close
  <1>2. CASE Reopen(S)
    BY <1>2 DEF BoardInv, BoardTypeOK, States, Exclusive, NeverAgain, Placed, Reopen
  <1> QED BY <1>1, <1>2

\* Whatever implements the board gives a printer to one job at a time and
\* never requeues a job that has begun.
THEOREM BoardKeepsPromises ==
    ASSUME Nowhere \notin Printers
    PROVE  Spec => []BoardInv
  <1>1. BoardInv /\ [Next]_vars => BoardInv'
    <2> SUFFICES ASSUME BoardInv, [Next]_vars PROVE BoardInv'
      OBVIOUS
    <2>1. CASE UNCHANGED vars
      BY <2>1 DEF vars, BoardInv, BoardTypeOK, Exclusive, NeverAgain, Placed
    <2>2. CASE Next
      BY <2>2, SubmitKeeps, AssignKeeps, BeginKeeps, ReturnKeeps, CloseKeeps DEF Next
    <2> QED BY <2>1, <2>2
  <1> QED BY <1>1, InitHolds, PTL DEF Spec

=============================================================================
