--------------------------- MODULE MCContextBuffer ----------------------------
(***************************************************************************)
(* A small instance of ContextBuffer: budgets of 0 to 12 tokens, messages  *)
(* of 1 to 9, pinned, cached, malformed and too long ones among them.      *)
(***************************************************************************)
EXTENDS ContextBuffer, TLC

Msg(id, role, chars, cached, pinned, valid) ==
    [id |-> id, role |-> role, chars |-> chars, cached |-> cached,
     pinned |-> pinned, valid |-> valid]

MCMessage == {
    Msg(1, "system", 4, Omitted, TRUE, TRUE),      \* 2 tokens, 3 with the other framing
    Msg(2, "user", 0, Omitted, FALSE, TRUE),       \* 1: the framing alone
    Msg(3, "assistant", 8, Omitted, FALSE, TRUE),  \* 3
    Msg(4, "tool", 9, Omitted, FALSE, TRUE),       \* 4
    Msg(5, "user", 4, 9, FALSE, TRUE),             \* 9, from its cache
    Msg(6, "user", 4, Omitted, FALSE, FALSE),      \* malformed
    Msg(7, "system", 20, Omitted, TRUE, TRUE)}     \* 6

MCNote == Msg(8, "assistant", 0, Omitted, FALSE, TRUE)     \* 1
MCLong == Msg(9, "user", 40, Omitted, FALSE, TRUE)         \* 11

MCSummary == {MCNote, MCLong}

MCCompactions == {NoCompaction, <<MCNote>>, <<MCNote, MCLong>>}

MCTokenizerProfiles ==
    [small |-> [window |-> 12, framing |-> 1], large |-> [window |-> 15, framing |-> 2]]

Config(profile, window, reserved, strategy, n) ==
    [profile |-> profile, window |-> window, reserved |-> reserved,
     strategy |-> strategy, n |-> n]

MCConfigs == {
    Config("small", Omitted, 2, Omitted, Omitted),
    Config("unknown", 7, 2, "sliding-window-pinned", Omitted),
    Config("large", Omitted, Omitted, "keep-last-n", 2),
    Config(Omitted, 12, 0, "keep-last-n", Omitted),
    Config("small", 1, 2, Omitted, Omitted)}
=============================================================================
