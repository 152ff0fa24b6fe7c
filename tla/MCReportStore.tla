--------------------------- MODULE MCReportStore ---------------------------
(* Two containers and two reports.                                          *)
EXTENDS ReportStore

CONSTANTS c1, c2

\* The first report is prepared at the start.  It is alone, among up to two failures; or
\* the second comes at once, or when the first has almost had its time, among fewer.
Spread ==
    /\ now > 1 => created[1] = 1
    /\ \/ created[2] = 0
       \/ created = <<1, 1>> /\ trouble <= 0
       \/ created = <<1, 2>> /\ trouble <= 1
=============================================================================
