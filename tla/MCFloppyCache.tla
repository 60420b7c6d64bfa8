---------------------------- MODULE MCFloppyCache ----------------------------
(* There are more sectors than slots, so that the cache fills up; sorting   *)
(* then puts sector 0 in slot 0 and the other slot is given away when it    *)
(* needs no writing.                                                        *)
EXTENDS FloppyCache
CONSTANTS v, w
TwoValues == {v, w}
ThreeSectors == 0 .. 2
==============================================================================
