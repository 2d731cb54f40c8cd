SPECIFICATION UartSpec
CONSTANTS
  Chars = {"m", "s", "eot"}
  EOT = "eot"
  MaxText = 3
  MaxOut = 6
INVARIANT StopsAtText
CHECK_DEADLOCK FALSE
