--------------------------- MODULE MCSqliteMicro ----------------------------
(* A small instance of SqliteMicro for TLC. *)
EXTENDS SqliteMicro, TLC

\* The ways a storage mounts, or does not.
MCTargets == {[platform |-> "ESP32", storage |-> "littlefs"],
              [platform |-> "ESP32", storage |-> "sdcard"],
              [platform |-> "RP2040", storage |-> "littlefs"],
              [platform |-> "RP2040", storage |-> "sdcard"]}

LittleFsBoards == {b \in MCTargets : b.storage = "littlefs"}

\* Of the data nothing is claimed any more once a lock was wrongly granted or a
\* commit cut short, and a program whose open was refused is where it was before:
\* such a state is checked, and followed no further.
Followed == ~disturbed /\ ~torn /\ example # "refused"

Symmetry == Permutations(Conns)
=============================================================================
