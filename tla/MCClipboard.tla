---------------------------- MODULE MCClipboard ----------------------------
(* Each direction alone, both and none, and the text mode, which keeps no     *)
(* lists of targets, with one of them.                                        *)
EXTENDS Clipboard

MCOptions == {[clipboard |-> "both", text |-> FALSE], [clipboard |-> "client", text |-> TRUE],
              [clipboard |-> "server", text |-> FALSE], [clipboard |-> "none", text |-> TRUE]}
=============================================================================
