------------------------------ MODULE TzTable ------------------------------
(***************************************************************************)
(* The table of summer times that tzadj/dow.c generates, as the first      *)
(* terminal has it (esp8266terminal/londontzstruct.c), and the function    *)
(* that looks an instant up in it (esp8266terminal/tzstruct.c; the loop of *)
(* tzadj/tzstruct.c tests the next row for the end and has the same        *)
(* result).  Instants are seconds since 1970.                              *)
(***************************************************************************)
EXTENDS Integers, Sequences

Row(s, e) == [startsat |-> s, endsat |-> e]

\* One row a year from 2018 on, and a row of zeros that ends the table.
timezonechanges == <<
  Row(1521939600, 1540688400), Row(1553994000, 1572138000),
  Row(1585443600, 1603587600), Row(1616893200, 1635642000),
  Row(1648342800, 1667091600), Row(1679792400, 1698541200),
  Row(1711846800, 1729990800), Row(1743296400, 1761440400),
  Row(1774746000, 1792890000), Row(1806195600, 1824944400),
  Row(1837645200, 1856394000), Row(1869094800, 1887843600),
  Row(1901149200, 1919293200), Row(1932598800, 1950742800),
  Row(1964048400, 1982797200), Row(1995498000, 2014246800),
  Row(2026947600, 2045696400), Row(0, 0) >>

\* The loop reaches row i if it did not return or stop at a row before.
Inside(epoch, row) == row.startsat < epoch /\ epoch < row.endsat
GoesOn(epoch, row) == row.startsat # 0 /\ row.startsat < epoch
tz_shouldaddanhour(epoch) ==
  IF \E i \in DOMAIN timezonechanges :
       /\ Inside(epoch, timezonechanges[i])
       /\ \A j \in 1 .. i - 1 : GoesOn(epoch, timezonechanges[j])
  THEN 1 ELSE 0
=============================================================================
