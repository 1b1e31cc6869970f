---------------------------- MODULE MCLifecycle -----------------------------
(* Small instances of the life of a device, for TLC. *)
EXTENDS LifecycleDisk

Bounds(formats, writes, flushes, rollbacks, faults, losses) ==
  [formats |-> formats, writes |-> writes, flushes |-> flushes, rollbacks |-> rollbacks,
   faults |-> faults, losses |-> losses]

Scenario(n, uses, bounds) == [object_count |-> n, commands |-> uses, budget |-> bounds]

Telegram == "serve --backend telegram"
FromRemote == "recover-from-remote"
Beside == "recover-from-remote beside a daemon"

\* A device kept as a tree, one kept flat, and a local one.
MCCareful ==
  {Scenario(3, {Telegram, "gc", FromRemote}, Bounds(1, 2, 2, 0, 1, 0)),
   Scenario(3, {Telegram, "gc", FromRemote}, Bounds(1, 2, 2, 0, 0, 1)),
   Scenario(2, {Telegram, "gc", FromRemote}, Bounds(2, 2, 1, 0, 1, 1)),
   Scenario(2, {"serve --backend local"}, Bounds(1, 2, 2, 0, 0, 0))}

\* One device after another on the same channel.
MCReformat == {Scenario(2, {Telegram, "gc", "reformat", FromRemote}, Bounds(2, 2, 2, 0, 0, 0))}

\* One unsound practice each.
MCRollback == {Scenario(2, {Telegram, "recover", FromRemote}, Bounds(1, 1, 1, 1, 1, 0))}
MCFlush == {Scenario(2, {Telegram, "flush", FromRemote}, Bounds(1, 1, 1, 0, 0, 0))}
MCBeside == {Scenario(2, {Telegram, Beside}, Bounds(1, 1, 1, 0, 0, 0))}

MCScenarios == MCCareful \cup MCReformat \cup MCRollback \cup MCFlush \cup MCBeside

MCSymmetry == Permutations(Processes)
=============================================================================
