------------------------------ MODULE MCTextBox ------------------------------
EXTENDS TextBoxProps

\* A text with a word boundary in it, an empty one, and one longer than LenMax.
MCGiven == {<<>>, <<"a", "_", "a">>, <<"a", "a", "_", "a">>}
\* mClipboard and mCurrent are given out and never read back.
Seen == <<box, work, current, focus, dirty, layout, loop>>
=============================================================================
