CONSTANTS
    Any = Any
    None = None
    jpg = jpg  thm = thm  mov = mov
    media = media  thumbs = thumbs
    photos = photos  other = other
    Policies <- MCPolicies
    Categories = {photos, other}
    CategoryMaps <- MCCategoryMaps
    Exts = {jpg, thm, mov}
    Kind <- MCKind
    Half = 64
    Max32 = 20
    Second = 3
    FileSizes = {0, 40}
    Extended <- MCExtended
    Times = {0, 1, 20, 21, 63, 64, 127}
    Dirs = {media, thumbs}
    Sizes = {0, 1, 2}
SPECIFICATION MCSpec
INVARIANTS
    FirstMatchWins
    ExplicitCategoryWins
    DateIsTheVideos
PROPERTIES
    DateIsFound
CHECK_DEADLOCK FALSE
