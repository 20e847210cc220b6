CONSTANTS
    chicken = chicken
    pizza = pizza
    NoFilter = NoFilter
    NoRow = NoRow
    Rows <- MCRows
    Categories = {chicken, pizza}
    Limits = {1, 2}
    FirstPages = {1, 2}
SPECIFICATION Spec
SYMMETRY Interchangeable
INVARIANTS
    NoRowSkipped
    NoRowTwice
    PromisedPageIsNotEmpty
    TotalOfAQuietList
