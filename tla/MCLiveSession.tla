---------------------------- MODULE MCLiveSession ----------------------------
\* The users of a live session for TLC.
EXTENDS LiveSession

Setting(delayed, reset, length, best) ==
    [live_delayed |-> delayed, zenz_delayed |-> delayed, timer_reset |-> reset,
     min_key_length |-> length, best |-> best]

\* fcitx5, whose timer a key resets, with a converter that changes its mind, and
\* TSF, whose timer survives keys, with the delays on and with both at zero.
Safe == {Setting(TRUE, TRUE, 1, Best), Setting(TRUE, FALSE, 1, {"m1"}),
         Setting(FALSE, FALSE, 2, {"m1"})}
Fcitx == {Setting(TRUE, TRUE, 1, Best)}
\* TSF with the delays on, and with both delays at zero.
Tsf == {Setting(TRUE, FALSE, 1, Best), Setting(FALSE, FALSE, 2, Best)}
=============================================================================
