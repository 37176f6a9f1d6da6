------------------------------ MODULE MCInstall ------------------------------
(* Install with two URLs whose buildpacks have one path in common. *)
EXTENDS Install

CONSTANTS custom, ruby, u, v

MCNames == {custom, ruby}
MCUrls == {u, v}
MCParts == [url \in MCUrls |-> IF url = u THEN {1, 2} ELSE {2, 3}]
=============================================================================
