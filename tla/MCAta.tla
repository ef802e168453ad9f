------------------------------ MODULE MCAta ------------------------------
\* Status registers for model checking.
EXTENDS Ata

Status(b, r, f, d, e) == [bsy |-> b, rdy |-> r, df |-> f, drq |-> d, err |-> e]

Nothing == Status(FALSE, FALSE, FALSE, FALSE, FALSE)
Busy    == Status(TRUE, TRUE, FALSE, FALSE, FALSE)
Ready   == Status(FALSE, TRUE, FALSE, FALSE, FALSE)
HasData == Status(FALSE, TRUE, FALSE, TRUE, FALSE)
Fault   == Status(FALSE, TRUE, TRUE, FALSE, FALSE)
Failed  == Status(TRUE, TRUE, FALSE, FALSE, TRUE)
Stalled == Status(FALSE, FALSE, FALSE, TRUE, FALSE)

AllStatuses == {Nothing, Busy, Ready, HasData, Fault, Failed, Stalled}
==========================================================================
