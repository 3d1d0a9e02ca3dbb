SPECIFICATION Spec
CONSTANTS
    Hash = Hash
    LatestWord = LatestWord
    Broken = Broken
    None = None
    Wildcard = Hash
    Garbled = Broken
    Words = {LatestWord}
    Tags <- MCTags
    Prereleases = {3}
    ApkRevised <- MCApkRevised
    YumRevised <- MCYumRevised
    Literals <- MCLiterals
    Patterns <- MCPatterns
    ReleaseLists <- MCReleaseLists
    TagLists <- MCTagLists
    Listings <- MCListings
    Pins <- MCPins
    Keys <- MCKeys
    Begins <- MCBegins
INVARIANTS
    NeverYanked
