---------------------------- MODULE MCKeyboard ----------------------------
(***************************************************************************)
(* Keyboard for TLC: all modifier keys and one key of every other kind,    *)
(* and the shift that extended keys fake.                                  *)
(***************************************************************************)
EXTENDS Keyboard

Typed ==
    {<<42, FALSE>>, <<54, FALSE>>, <<29, FALSE>>, <<29, TRUE>>, <<56, FALSE>>, <<56, TRUE>>}
    \cup {<<58, FALSE>>, <<69, FALSE>>}                                   \* locks
    \cup {<<30, FALSE>>, <<46, FALSE>>, <<16, FALSE>>, <<17, FALSE>>}     \* a, c, q, w
    \cup {<<3, FALSE>>, <<80, FALSE>>, <<53, FALSE>>, <<28, TRUE>>}       \* two 2s, slash, enter
    \cup {<<80, TRUE>>, <<42, TRUE>>}                                     \* down, faked shift

=============================================================================
