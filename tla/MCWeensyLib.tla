----------------------------- MODULE MCWeensyLib -----------------------------
(* The C library's calls, the console and the keyboard share no state: each is explored with *)
(* the other two at rest.                                                                    *)
EXTENDS WeensyConsole, LibraryCalls

A == LOWER_A
LibTexts == {<<A, A + 1>>, <<A + 2, A + 3, A + 4, NL>>, <<NL, A>>}
LibPositions == {-1, 4, 7}
LibSymmetry == Permutations(Printers)
LibValues == {-128, -127, -10, -1, 0, 1, 9, 10, 127, 128, 255}
LibWidths == {-1, 0, 1, 3, 6}
LibDigits == {48, 49, 50, 53, 56, 102}

Init == ScreenInit /\ KeyboardInit /\ CallInit

ScreenAtRest == ScreenInit
KeyboardAtRest == KeyboardInit

Next ==
    \/ KeyboardAtRest /\ call = NoCall /\ ScreenNext /\ UNCHANGED <<keyboard, call>>
    \/ ScreenAtRest /\ call = NoCall /\ KeyboardNext /\ UNCHANGED <<screen, call>>
    \/ ScreenAtRest /\ KeyboardAtRest /\ CallNext /\ UNCHANGED <<screen, keyboard>>

Spec == Init /\ [][Next]_<<screen, keyboard, call>>
=============================================================================
