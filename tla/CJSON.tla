--------------------------------- MODULE CJSON ---------------------------------
(***************************************************************************)
(* What the program relies on of the JSON parser under utils/: an object   *)
(* becomes the list of its members in the order of the text, a repeated    *)
(* name as often as it is there.  A member is a record: its name, its      *)
(* string (NoString where the text has a number) and its number (0 where   *)
(* the text has a string).                                                 *)
(***************************************************************************)
EXTENDS CInt, Sequences

CONSTANTS
    NoString,   \* valuestring of a number: NULL
    Empty       \* a file without a text

Member == [name : STRING, str : STRING \cup {NoString}, int : Int]

\* A number too large for valueint becomes the largest or the smallest int.
parse_number(number) ==
    CASE number >= IntMax -> IntMax
      [] number <= -IntMax - 1 -> -IntMax - 1
      [] OTHER -> number

parse_object(members) ==
    [i \in DOMAIN members |-> [members[i] EXCEPT !.int = parse_number(@)]]

\* Mutant: a file without a text is taken for an object.
CanParse_Empty(file) == TRUE

\* cJSON_Parse returns NULL for a text that is no value.
CanParse(file) == file # Empty
=============================================================================
