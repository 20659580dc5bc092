SPECIFICATION Spec
CONSTANTS
    None = None
    Files = {"sahih", "muslim"}
    Key <- MCKey
    Types = {"verse", "note", "chapter", "unknown"}
    Fields = {"book", "verse"}
    Groups <- MCGroups
    Safe = {"bookVerse", "book", "verse", "other"}
    Units <- MCUnits
    Proposals <- MCProposals
    Profiles <- MCProfiles
    Watched = "sahih"
    MaxRequests = 2
INVARIANT VerifiedSuggestionsUpload
