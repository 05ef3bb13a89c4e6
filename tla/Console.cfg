\* Three tasks that print on a screen of two lines; bytes wrap after 4.
SPECIFICATION ConsoleSpec
CONSTANTS
  Width = 2
  Height = 2
  Modulus = 5
  Printers = {t1, t2, t3}
SYMMETRY PrinterSymmetry
INVARIANT CursorComesBack
