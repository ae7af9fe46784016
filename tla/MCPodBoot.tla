----------------------------- MODULE MCPodBoot -----------------------------
(* Values of the constants of PodBoot for model checking: a pod with its   *)
(* pause container p and two main containers a and b that race for the     *)
(* address; c asks for a 9pfs server, d has a volume, and both no pod.    *)
EXTENDS PodBoot

CONSTANTS p, a, b, c, d

Container(pause, netns, json, disk, ask9p, volumes) ==
  [pause |-> pause, netns |-> netns, json |-> json,
   disk |-> disk, ask9p |-> ask9p, volumes |-> volumes]

Pod == [h \in Helpers |->
          CASE h = p -> Container(TRUE,  "name", "empty",  FALSE, FALSE, <<>>)
            [] h = a -> Container(FALSE, "path", "auto",   TRUE,  FALSE, <<>>)
            [] h = b -> Container(FALSE, "path", "fixed",  FALSE, FALSE, <<>>)
            [] h = c -> Container(FALSE, "none", "absent", FALSE, TRUE,  <<>>)
            [] h = d -> Container(FALSE, "none", "absent", FALSE, FALSE, <<"other", "ro">>)]
=============================================================================
