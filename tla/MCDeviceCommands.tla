-------------------------- MODULE MCDeviceCommands --------------------------
(***************************************************************************)
(* Two clients, and accesses at, below and above the edges of a window of  *)
(* eight cells in a space of 32, one of them with a sum that wraps around. *)
(***************************************************************************)
EXTENDS DeviceCommands

At(base, offset, size, ch) == [base |-> base, offset |-> offset, size |-> size, ch |-> ch]

MCAccesses ==
  { At(4, 0, 6, 0),     \* all that is advertised
    At(4, 2, 4, 3),     \* the same end, on a channel that does not exist
    At(4, 4, 4, 2),     \* the end of the window
    At(4, 4, 5, 0),     \* one cell past it
    At(3, 0, 1, 0),     \* one cell before it
    At(3, 1, 0, 0),     \* nothing, at its start
    At(10, 1, 1, 1),    \* inside, by another base
    At(12, 0, 1, 0),    \* past it
    At(8, 2, 24, 0) }   \* wraps around
=============================================================================
