----------------------------- MODULE MCStartup -----------------------------
(***************************************************************************)
(* Startup on every file that has one short line of arbitrary characters   *)
(* among the lines of config.ini.                                          *)
(***************************************************************************)
EXTENDS Startup

CONSTANT LineLength   (* bound: characters of the arbitrary line           *)

MCWords == {"ProxyServer", "PROXYSERVER", "front_port", "back_port",
            "9999", "9998", "0", "n"}
MCLower == [w \in MCWords |-> IF w = "PROXYSERVER" THEN "ProxyServer" ELSE w]
MCNumber == [w \in {"9999", "9998", "0"} |-> CASE w = "9999" -> 9999
                                                [] w = "9998" -> 9998
                                                [] w = "0" -> 0]

Characters == {SP, CR, "[", "]", ";", "=", QUOTE, "\\", "front_port", "9999", "0", "n"}

\* Words do not touch: two in a row are one.
Lines ==
    {l \in UNION {[1 .. n -> Characters] : n \in 0 .. LineLength} :
        \A i \in 1 .. Len(l) - 1 : ~ {l[i], l[i + 1]} \subseteq MCWords}

Header == <<"[", "PROXYSERVER", "]", CR, LF>>
FrontLine == <<"front_port", SP, "=", SP, "9999", LF>>
BackLine  == <<"back_port", "=", "9998">>

\* The line begins the file, is one more in the section, is the value of the
\* front port, ends the file as another line or as a quoted value, or is the
\* value of both ports.
Places == 1 .. 6
FileWith(l, place) ==
    CASE place = 1 -> l \o <<LF>> \o Header \o FrontLine \o BackLine
      [] place = 2 -> Header \o l \o <<LF>> \o FrontLine \o BackLine
      [] place = 3 -> Header \o <<"front_port", "=">> \o l \o <<LF>> \o BackLine
      [] place = 4 -> Header \o BackLine \o <<LF>> \o FrontLine \o l
      [] place = 5 -> Header \o BackLine \o <<LF, "front_port", "=", QUOTE>> \o l
      [] place = 6 -> Header \o <<"front_port", "=">> \o l
                             \o <<LF, "back_port", "=">> \o l

MCFiles == {FileWith(l, place) : l \in Lines, place \in Places}
=============================================================================
