-------------------------- MODULE MCAudioStreaming --------------------------
(* Music, and a level whose assets want some data loaded and unloaded. *)
EXTENDS AudioStreaming
MCDependencies == [g \in Groups |-> CASE g = "music" -> {"song"}
                                      [] g = "level" -> {"song", "rock"}
                                      [] g = "room"  -> {"rock"}]
MCChildGroups  == [g \in Groups |-> IF g = "level" THEN {"room"} ELSE {}]
Ask(a, k, s, p) == [asset |-> a, kind |-> k, size |-> s, priority |-> p]
MCInfo == [r \in DataRequests |-> CASE r = "one"   -> Ask("song", "load", 1, CRITICAL)
                                    [] r = "two"   -> Ask("song", "load", 2, CRITICAL)
                                    [] r = "mesh"  -> Ask("rock", "load", 2, CRITICAL)
                                    [] r = "skin"  -> Ask("rock", "load", 1, LOW)
                                    [] r = "old"   -> Ask("rock", "unload", 4, NORMAL)]
=============================================================================
