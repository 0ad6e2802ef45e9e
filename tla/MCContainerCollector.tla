------------------------- MODULE MCContainerCollector -------------------------
(***************************************************************************)
(* A behaviour is either of ContainerCollector, with one container more    *)
(* than are asked in a tick, as fifty and one in the code, or of           *)
(* EngineRequest, with answers of two symbols of any kind between their    *)
(* brackets and such as look like a size line, and chunks whose sizes have *)
(* one digit or two, a zero in front or not.                               *)
(***************************************************************************)
EXTENDS ContainerCollector, EngineRequest

MCInside == {"d", "0", "1", "CR", "LF"}

MCPayloads ==
    { <<"[">> \o inside \o <<"]">> :
         inside \in UNION { [1 .. k -> MCInside] : k \in 0 .. 2 } \cup { <<"0", "CR", "LF">>, <<"1", "CR", "LF">> } }

NoPayload == << >>

MCInit ==
    /\ Init
    /\ \/ RequestInit
       \/ /\ payload = NoPayload /\ framing = << >>
          /\ sent = << >> /\ told = 0 /\ ended = FALSE /\ marks = {}
          /\ step = "done" /\ rest = << >> /\ out = << >> /\ reply = Nothing

MCNext ==
    \/ payload = NoPayload /\ Next /\ UNCHANGED requestVars
    \/ payload # NoPayload /\ RequestNext /\ UNCHANGED vars

MCSpec == MCInit /\ [][MCNext]_<<vars, requestVars>>
===============================================================================
