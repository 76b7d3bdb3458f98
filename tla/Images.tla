-------------------------------- MODULE Images --------------------------------
(***************************************************************************)
(* PAN-OS versions and software images, as app/core/command_proxy/         *)
(* pan_client.py and app/upgrade/services read them from a firewall's      *)
(* software list: trains, the order of versions, the base image of a       *)
(* train, and the images a cleanup of the disk may delete.                 *)
(*                                                                         *)
(* A version is <<major, minor, maintenance, hotfix>>, what version_tuple  *)
(* makes of its text.  An entry of the list says whether the firewall      *)
(* calls it a base image, whether it has been downloaded, and whether it   *)
(* is the running one.                                                     *)
(***************************************************************************)
EXTENDS Integers, Sequences, FiniteSets

Version == [1..4 -> Nat]

feature_train(v) == <<v[1], v[2]>>

(* The order of the tuples.                                                 *)
Below(v, w) == \E i \in 1..4 : v[i] < w[i] /\ \A j \in 1..i - 1 : v[j] = w[j]

Lowest(vs) == CHOOSE v \in vs : \A w \in vs \ {v} : Below(v, w)

NoImage == <<>>

(* The marked entry of the train; a firewall that marks none has the lowest *)
(* release that is not a hotfix taken for it, or the lowest of the hotfixes.*)
base_image_from_list(target, list) ==
  LET train == {e \in list : feature_train(e.version) = feature_train(target)}
      marked == {e.version : e \in {f \in train : f.base}}
      plain == {e.version : e \in {f \in train : f.version[4] = 0}}
      all == {e.version : e \in train}
  IN  IF train = {} THEN NoImage
      ELSE Lowest(IF marked # {} THEN marked ELSE IF plain # {} THEN plain ELSE all)

_is_major_jump(current, target) == feature_train(current) # feature_train(target)

(* Mutant of _deletable_images: anything that does not run may go.          *)
DeletableButBase(list, current) ==
  {e.version : e \in {f \in list :
     /\ f.downloaded /\ ~f.current
     /\ ~(f.base /\ feature_train(f.version) = feature_train(current))}}

(* What a cleanup may delete: the downloaded images below the running one,  *)
(* but for the marked base of the running one's train.                      *)
_deletable_images(list, current) ==
  {e.version : e \in {f \in list :
     /\ f.downloaded /\ ~f.current
     /\ ~(f.base /\ feature_train(f.version) = feature_train(current))
     /\ Below(f.version, current)}}
===============================================================================
