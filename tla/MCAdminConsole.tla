---------------------------- MODULE MCAdminConsole ----------------------------
(* AdminConsole on a small instance: two pages, four names.                *)
EXTENDS AdminConsole, TLC

CONSTANTS a, b, c, d

(* Three users, one page and a half of them.                               *)
MCListing == <<a, b, c>>

(* d is created by the form and by a file, whose second line can only be   *)
(* stored after a was deleted; batches extend and delete the two.          *)
MCClicks ==
    { CreateForm(d, 1),
      ImportLine(d, 3, TRUE, TRUE) \o ImportLine(a, 3, FALSE, TRUE),
      BatchExtend(<<a, d>>, 1),
      BatchDelete(<<a, d>>) }

NoIPs == {}

(* The pages are interchangeable.                                          *)
TabSymmetry == Permutations(Tabs)
===============================================================================
