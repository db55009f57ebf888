SPECIFICATION Spec
CONSTANTS
    categorical = categorical
    plain = plain
    mixed = mixed
    red = red
    blue = blue
    title1 = title1
    title2 = title2
    Slice = {categorical, plain, mixed}
    Label = {red, blue}
    Decks <- LegendDecks
    CategorySets <- Categories
    Uncategorized = {mixed}
    StubTitle <- StubTitles
    Title <- OwnTitles
    MaxLoads = 2
INVARIANTS
    TypeOK
    CheckboxMatchesMap
    CategoriesDecideVisibility
PROPERTIES
    CategoryChangeRedraws
    HiddenByDefault
    GroupTogglesTogether
    ClickIsLocal
CHECK_DEADLOCK FALSE
