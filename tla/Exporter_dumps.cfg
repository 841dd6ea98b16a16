\* Two dumps into one file that may fail at any line, while others commit.
SPECIFICATION Spec
CONSTANTS
    person = person
    coffees = coffees
    sequence = sequence
    spaced = spaced
    null = null
    empty = empty
    word = word
    apostrophe = apostrophe
    doubled = doubled
    ending = ending
    five = five
    fiveText = fiveText
    precise = precise
    rounded = rounded
    x_empty = x_empty
    x_word = x_word
    x_apostrophe = x_apostrophe
    x_doubled = x_doubled
    x_ending = x_ending
    x_five = x_five
    x_real = x_real
    text = text
    numeric = numeric
    blob = blob
    index = index
    view = view
    Names = {person, coffees, sequence, spaced}
    Reserved = {sequence}
    PlainNames = {person, coffees, sequence}
    Values = {null, empty, word, apostrophe, doubled, ending, five, fiveText, precise, rounded}
    Null = null
    Texts = {x_empty, x_word, x_apostrophe, x_doubled, x_ending, x_five, x_real}
    EmptyText = x_empty
    Broken = {x_apostrophe}
    Splitting = {x_ending}
    Rereadings <- MCRereadings
    Affinities = {text, numeric, blob}
    Others = {index, view}
    Views = {view}
    Printed <- MCPrinted
    ReadAs <- MCReadAs
    Databases <- MCDatabases
    Callers = {TRUE, FALSE}
    DiskFails = TRUE
    MaxDumps = 2
    MaxWrites = 2
INVARIANTS TypeOK AllOrNothing CommitIsLast CompletedDumpRestores TablesAreOrderedInstants
