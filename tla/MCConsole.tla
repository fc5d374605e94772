----------------------------- MODULE MCConsole -----------------------------
(***************************************************************************)
(* Instances of the console for TLC: a small screen, some strings, and the *)
(* ways a framebuffer may be set up.                                       *)
(***************************************************************************)
EXTENDS Console
CONSTANTS w1, w2
MCTask == {w1, w2}
\* The sixteen colours, and the first entry after them, which is black again.
MCPalette ==
  [i \in 0..16 |-> <<0, 8388608, 32768, 8421376, 128, 8388736, 32896, 12632256,
                     8421504, 16711680, 65280, 16776960, 255, 16711935, 65535, 16777215, 0>>[i + 1]]
MCOperation ==
  {Puts(<<"a", "b">>), Puts(<<"tab">>), Puts(<<"nl">>), <<Clear>>, <<SetXy(W - 1, H - 1)>>, <<SetFg(1), SetBg(4)>>}
MCKey == {"x", "bs", "nl"}
Mode(back, direct, flip) == [back |-> back, direct |-> direct, flip |-> flip]
MCFbMode == {Mode(TRUE, TRUE, FALSE), Mode(TRUE, FALSE, TRUE), Mode(FALSE, FALSE, FALSE)}
\* A back buffer that is committed page by page.
MCPaged == {Mode(TRUE, FALSE, FALSE)}
============================================================================
