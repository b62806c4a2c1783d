------------------------------ MODULE MCFrames -------------------------------
(* Frames, with small scenes.                                               *)
EXTENDS Frames, TLC

Run(g, c, x, shadow, transparent) ==
  [glyph |-> g, color |-> c, x |-> x, shadow |-> shadow,
   transparent |-> transparent]
Evt(layer, order, runs) == [layer |-> layer, ReadOrder |-> order, runs |-> runs]
Scene(n, active) == [ours |-> TRUE, n_events |-> n, active |-> active]

\* One glyph, and the same moved.
Still == Scene(1, <<Evt(0, 0, <<Run("A", 1, 0, FALSE, FALSE)>>)>>)
Moved == Scene(1, <<Evt(0, 0, <<Run("A", 1, 1, FALSE, FALSE)>>)>>)
\* Another glyph, with a shadow and a transparent fill, below the first.
Two   == Scene(2, <<Evt(1, 0, <<Run("A", 1, 0, FALSE, FALSE)>>),
                    Evt(0, 1, <<Run("B", 1, 0, TRUE, TRUE)>>)>>)
\* A track without events.
Empty == Scene(0, <<>>)

\* Addresses mean nothing by themselves.
Perms == Permutations(Addr)
MCScenes == {Still, Moved, Two, Empty}
MCStillOrEmpty == {Still, Empty}
==============================================================================
